---- MODULE Spec2Model ----
(***************************************************************************)
(* Intent-scoped policy gate of Roo-Code: IntentManager (definition store  *)
(* and per-task bindings), ScopeValidator, PreToolHook (the pre-execution  *)
(* gate), TracePostHook (the post-execution audit) and the dispatch that   *)
(* runs a tool between the two.                                            *)
(*                                                                         *)
(* Strings of the program are TLA+ strings.  "undefined" stands for a      *)
(* JavaScript undefined value, "" for the empty string; both are falsy.    *)
(***************************************************************************)
EXTENDS Integers, Sequences, FiniteSets, TLC

VARIABLES file, intentsCache, activeIntentsByTask, traceLog, req, nreq, gate, sm,
          regCall, hist, nz, flight, chain

vars == <<file, intentsCache, activeIntentsByTask, traceLog, req, nreq, gate, sm,
          regCall, hist, nz, flight, chain>>

\* ---------------------------------------------------------------- bounds
\* Requests one run of the dispatch pipeline may start.
MaxRequests == 1
\* Longest pattern list handed to the scope matcher on its own.
MaxPatterns == 3
\* Longest sequence of raw entries handed to the normalizer on its own.
MaxEntries == 2
\* Most hooks registered with the HookEngine run on its own.
MaxHooks == 3
\* Most calls of the IntentManager that one run starts while others are suspended.
MaxCalls == 3

\* ------------------------------------------------------------ JS values
Undefined == "undefined"

Truthy(s) == s # Undefined /\ s # ""

\* a || b on two string-or-undefined values
OrElse(a, b) == IF Truthy(a) THEN a ELSE b

Range(s) == {s[i] : i \in 1..Len(s)}

\* The one element of a singleton set.  Bind({e(x) : x \in {v}}) is e with x
\* bound to the value of v, which is computed once.
Bind(S) == CHOOSE y \in S : TRUE

\* ------------------------------------------------------- paths and globs
Paths == {"src/a.ts", "src/c.ts", "src/legacy/b.ts", "docs/r.md", "README.md"}

\* path.split("/")
PathSegments(p) ==
    CASE p = "src/a.ts" -> <<"src", "a.ts">>
      [] p = "src/c.ts" -> <<"src", "c.ts">>
      [] p = "src/legacy/b.ts" -> <<"src", "legacy", "b.ts">>
      [] p = "docs/r.md" -> <<"docs", "r.md">>
      [] p = "README.md" -> <<"README.md">>
      [] OTHER -> <<>>

Patterns == {"src/**", "!src/legacy/**", "docs/*", "**", "!**"}

\* pattern.startsWith("!")
IsExclusion(pat) == pat \in {"!src/legacy/**", "!**"}

\* the glob of a pattern, its leading "!" removed, split at "/"
PatternSegments(pat) ==
    CASE pat = "src/**" -> <<"src", "**">>
      [] pat = "!src/legacy/**" -> <<"src", "legacy", "**">>
      [] pat = "docs/*" -> <<"docs", "*">>
      [] pat = "**" -> <<"**">>
      [] pat = "!**" -> <<"**">>
      [] OTHER -> <<"\\nomatch">>

\* "**" matches any number of segments, zero included; "*" matches one segment.
RECURSIVE GlobMatch(_, _)
GlobMatch(pat, segs) ==
    IF pat = <<>> THEN segs = <<>>
    ELSE IF Head(pat) = "**"
         THEN GlobMatch(Tail(pat), segs)
              \/ (segs # <<>> /\ GlobMatch(pat, Tail(segs)))
         ELSE /\ segs # <<>>
              /\ (Head(pat) = "*" \/ Head(pat) = Head(segs))
              /\ GlobMatch(Tail(pat), Tail(segs))

PatternMatches(pat, path) == GlobMatch(PatternSegments(pat), PathSegments(path))

\* One pass over the list: an inclusion that matches sets `inc`, an exclusion
\* that matches sets `exc`; the path is in scope when inc and not exc.
RECURSIVE ScanPatterns(_, _, _, _)
ScanPatterns(path, pats, inc, exc) ==
    IF pats = <<>> THEN inc /\ ~exc
    ELSE IF IsExclusion(Head(pats))
    THEN ScanPatterns(path, Tail(pats), inc, exc \/ PatternMatches(Head(pats), path))
    ELSE ScanPatterns(path, Tail(pats), inc \/ PatternMatches(Head(pats), path), exc)

\* A matcher in which the last matching pattern decides.
RECURSIVE LastMatchWins(_, _, _)
LastMatchWins(path, pats, cur) ==
    IF pats = <<>> THEN cur
    ELSE LastMatchWins(path, Tail(pats),
                       IF PatternMatches(Head(pats), path)
                       THEN ~IsExclusion(Head(pats)) ELSE cur)

ValidatePathLastMatch(path, scopePatterns) == LastMatchWins(path, scopePatterns, FALSE)

\* ScopeValidator.validatePath
ValidatePath(path, scopePatterns) == ScanPatterns(path, scopePatterns, FALSE, FALSE)

\* ------------------------------------------------- the definition resource
\* A field of a parsed YAML mapping: absent, a sequence, or some other value.
Undef == [kind |-> "undefined", items |-> <<>>]
Arr(items) == [kind |-> "array", items |-> items]
Scalar == [kind |-> "scalar", items |-> <<>>]
Null == [kind |-> "null", items |-> <<>>]

\* a ?? b
Coalesce(a, b) == IF a.kind \in {"undefined", "null"} THEN b ELSE a

\* One raw entry of the sequence; isNull is a YAML null in its place.
RawEntry(id, camel, snake) ==
    [isNull |-> FALSE, id |-> id, ownedScope |-> camel, owned_scope |-> snake,
     acceptanceCriteria |-> Undef, acceptance_criteria |-> Undef]

NullEntry ==
    [isNull |-> TRUE, id |-> Undefined, ownedScope |-> Undef, owned_scope |-> Undef,
     acceptanceCriteria |-> Undef, acceptance_criteria |-> Undef]

\* What the resource holds: no file, text yaml.parse rejects, or a document.
DocNames == {"default", "doc1", "doc2", "doc3", "doc4"}

FileStates == {"missing", "bad"} \cup DocNames

\* yaml.parse(content) of each document
ParsedYaml(d) ==
    CASE d = "doc1" ->
           [intents |-> Arr(<<RawEntry("INT-001", Arr(<<"src/**", " !src/legacy/** ">>), Undef),
                              RawEntry("INT-002", Arr(<<"docs/*", "  ">>), Undef)>>),
            active_intents |-> Undef]
      [] d = "doc2" ->
           [intents |-> Undef,
            active_intents |-> Arr(<<RawEntry("INT-001", Undef, Arr(<<"docs/*">>))>>)]
      [] d = "doc3" ->
           [intents |-> Arr(<<RawEntry(Undefined, Arr(<<"**">>), Undef),
                              RawEntry("INT-002", Scalar, Arr(<<"src/**">>))>>),
            active_intents |-> Arr(<<RawEntry("INT-001", Arr(<<"**">>), Undef)>>)]
      [] d = "doc4" ->
           [intents |-> Arr(<<NullEntry, RawEntry("INT-002", Arr(<<"docs/*">>), Undef)>>),
            active_intents |-> Undef]
      [] OTHER -> [intents |-> Arr(<<>>), active_intents |-> Undef]

\* item.trim()
Trim(s) ==
    CASE s = " !src/legacy/** " -> "!src/legacy/**"
      [] s = "  " -> ""
      [] s = " tests pass " -> "tests pass"
      [] OTHER -> s

RECURSIVE TrimNonEmpty(_)
TrimNonEmpty(items) ==
    IF items = <<>> THEN <<>>
    ELSE IF Trim(Head(items)) = "" THEN TrimNonEmpty(Tail(items))
    ELSE <<Trim(Head(items))>> \o TrimNonEmpty(Tail(items))

\* IntentManager.normalizeStringArray
NormalizeStringArray(value) ==
    IF value.kind # "array" THEN <<>> ELSE TrimNonEmpty(value.items)

\* normalizeIntent that reads only the camelCase field names
NormalizeIntent_CamelOnly(rawIntent) ==
    [id |-> OrElse(rawIntent.id, ""),
     ownedScope |-> NormalizeStringArray(rawIntent.ownedScope),
     acceptanceCriteria |-> NormalizeStringArray(rawIntent.acceptanceCriteria)]

\* IntentManager.normalizeIntent (the fields the gate and the audit read)
NormalizeIntent(rawIntent) ==
    [id |-> OrElse(rawIntent.id, ""),
     ownedScope |-> NormalizeStringArray(Coalesce(rawIntent.ownedScope, rawIntent.owned_scope)),
     acceptanceCriteria |->
         NormalizeStringArray(Coalesce(rawIntent.acceptanceCriteria,
                                       rawIntent.acceptance_criteria))]

\* ---------------------------------------------------------- IntentManager
NullCache == [loaded |-> FALSE, intents |-> <<>>]
Cached(intents) == [loaded |-> TRUE, intents |-> intents]

NoIntent == [id |-> Undefined, ownedScope |-> <<>>, acceptanceCriteria |-> <<>>]

\* What a call throws: nothing, `Failed to parse active_intents.yaml: <text>`
\* (line 58), or `Intent <id> not found` (line 83)
NoError == [kind |-> "none", text |-> ""]
FailedToParse(text) == [kind |-> "FailedToParse", text |-> text]
IntentNotFound(intentId) == [kind |-> "IntentNotFound", text |-> intentId]

\* error.message of what yaml.parse or normalizeIntent threw inside the try block
ParserText(f) ==
    IF f = "bad" THEN "YAMLParseError" ELSE "TypeError: Cannot read properties of null"

\* lines 42-46: the sequence under "intents", else under "active_intents", else none
RawIntents(parsed) ==
    IF parsed.intents.kind = "array" THEN parsed.intents
    ELSE IF parsed.active_intents.kind = "array" THEN parsed.active_intents
    ELSE Undef

\* lines 48-61, given rawIntents: a null entry makes normalizeIntent throw
\* inside the try block, and the catch rethrows
LoadParsed(f, c, rawIntents) ==
    IF rawIntents.kind # "array"
    THEN [file |-> f, cache |-> Cached(<<>>), threw |-> FALSE, val |-> <<>>,
          error |-> NoError, read |-> TRUE, wrote |-> FALSE]
    ELSE IF \E i \in 1..Len(rawIntents.items) : rawIntents.items[i].isNull
    THEN [file |-> f, cache |-> c, threw |-> TRUE, val |-> <<>>,
          error |-> FailedToParse(ParserText(f)), read |-> TRUE, wrote |-> FALSE]
    ELSE Bind({[file |-> f, cache |-> Cached(norm), threw |-> FALSE, val |-> norm,
                error |-> NoError, read |-> TRUE, wrote |-> FALSE] :
               norm \in {[i \in 1..Len(rawIntents.items) |->
                             NormalizeIntent(rawIntents.items[i])]}})

\* loadIntents that reads the resource whether or not the cache is populated
LoadIntents_NoCache(f, c, writeOk) ==
    IF f = "missing"
    THEN [file |-> IF writeOk THEN "default" ELSE "missing",
          cache |-> Cached(<<>>), threw |-> FALSE, val |-> <<>>,
          error |-> NoError, read |-> FALSE, wrote |-> TRUE]
    ELSE IF f = "bad"
    THEN [file |-> f, cache |-> c, threw |-> TRUE, val |-> <<>>,
          error |-> FailedToParse(ParserText(f)), read |-> TRUE, wrote |-> FALSE]
    ELSE Bind({LoadParsed(f, c, rawIntents) : rawIntents \in {RawIntents(ParsedYaml(f))}})

\* loadIntents that takes an unparsable resource for an empty one
LoadIntents_SwallowParseError(f, c, writeOk) ==
    IF c.loaded
    THEN [file |-> f, cache |-> c, threw |-> FALSE, val |-> c.intents,
          error |-> NoError, read |-> FALSE, wrote |-> FALSE]
    ELSE IF f = "missing"
    THEN [file |-> IF writeOk THEN "default" ELSE "missing",
          cache |-> Cached(<<>>), threw |-> FALSE, val |-> <<>>,
          error |-> NoError, read |-> FALSE, wrote |-> TRUE]
    ELSE IF f = "bad"
    THEN [file |-> f, cache |-> Cached(<<>>), threw |-> FALSE, val |-> <<>>,
          error |-> NoError, read |-> TRUE, wrote |-> FALSE]
    ELSE Bind({LoadParsed(f, c, rawIntents) : rawIntents \in {RawIntents(ParsedYaml(f))}})

\* loadIntents that lets the failure of writing the default document out
WriteFailed == [kind |-> "WriteFailed", text |-> "EACCES"]

LoadIntents_WriteFailureThrows(f, c, writeOk) ==
    IF c.loaded
    THEN [file |-> f, cache |-> c, threw |-> FALSE, val |-> c.intents,
          error |-> NoError, read |-> FALSE, wrote |-> FALSE]
    ELSE IF f = "missing"
    THEN IF writeOk
         THEN [file |-> "default", cache |-> Cached(<<>>), threw |-> FALSE, val |-> <<>>,
               error |-> NoError, read |-> FALSE, wrote |-> TRUE]
         ELSE [file |-> "missing", cache |-> c, threw |-> TRUE, val |-> <<>>,
               error |-> WriteFailed, read |-> FALSE, wrote |-> TRUE]
    ELSE IF f = "bad"
    THEN [file |-> f, cache |-> c, threw |-> TRUE, val |-> <<>>,
          error |-> FailedToParse(ParserText(f)), read |-> TRUE, wrote |-> FALSE]
    ELSE Bind({LoadParsed(f, c, rawIntents) : rawIntents \in {RawIntents(ParsedYaml(f))}})

\* IntentManager.loadIntents on resource f and cache c; writeOk: whether the
\* write of the default document succeeds.  Returns the new resource and cache,
\* whether the call threw, and the value it returned.
LoadIntents(f, c, writeOk) ==
    IF c.loaded
    THEN [file |-> f, cache |-> c, threw |-> FALSE, val |-> c.intents,
          error |-> NoError, read |-> FALSE, wrote |-> FALSE]
    ELSE IF f = "missing"
    THEN [file |-> IF writeOk THEN "default" ELSE "missing",
          cache |-> Cached(<<>>), threw |-> FALSE, val |-> <<>>,
          error |-> NoError, read |-> FALSE, wrote |-> TRUE]
    ELSE IF f = "bad"
    THEN [file |-> f, cache |-> c, threw |-> TRUE, val |-> <<>>,
          error |-> FailedToParse(ParserText(f)), read |-> TRUE, wrote |-> FALSE]
    ELSE Bind({LoadParsed(f, c, rawIntents) : rawIntents \in {RawIntents(ParsedYaml(f))}})

\* intents.find((intent) => intent.id === intentId) || null
FindIntent(intents, intentId) ==
    IF \E i \in 1..Len(intents) : intents[i].id = intentId
    THEN [found |-> TRUE,
          intent |-> intents[CHOOSE i \in 1..Len(intents) :
                                /\ intents[i].id = intentId
                                /\ \A j \in 1..(i - 1) : intents[j].id # intentId]]
    ELSE [found |-> FALSE, intent |-> NoIntent]

\* IntentManager.getIntent
GetIntent(f, c, writeOk, intentId) ==
    Bind({IF l.threw
          THEN [file |-> l.file, cache |-> l.cache, threw |-> TRUE, found |-> FALSE,
                intent |-> NoIntent, error |-> l.error, read |-> l.read, wrote |-> l.wrote]
          ELSE Bind({[file |-> l.file, cache |-> l.cache, threw |-> FALSE,
                      found |-> r.found, intent |-> r.intent, error |-> NoError,
                      read |-> l.read, wrote |-> l.wrote] :
                     r \in {FindIntent(l.val, intentId)}}) :
          l \in {LoadIntents(f, c, writeOk)}})

\* getActiveIntent that falls back on the first loaded intent when the bound id
\* is not among them
GetActiveIntent_Fallback(f, c, writeOk, bindings, taskId) ==
    IF ~Truthy(bindings[taskId])
    THEN [file |-> f, cache |-> c, threw |-> FALSE, found |-> FALSE, intent |-> NoIntent,
          error |-> NoError, read |-> FALSE, wrote |-> FALSE]
    ELSE Bind({IF r.threw \/ r.found \/ r.cache.intents = <<>> THEN r
               ELSE [r EXCEPT !.found = TRUE, !.intent = r.cache.intents[1]] :
               r \in {GetIntent(f, c, writeOk, bindings[taskId])}})

\* IntentManager.getActiveIntent
GetActiveIntent(f, c, writeOk, bindings, taskId) ==
    IF ~Truthy(bindings[taskId])
    THEN [file |-> f, cache |-> c, threw |-> FALSE, found |-> FALSE, intent |-> NoIntent,
          error |-> NoError, read |-> FALSE, wrote |-> FALSE]
    ELSE GetIntent(f, c, writeOk, bindings[taskId])

\* setActiveIntent that records the binding before it looks the intent up
SetActive_BindFirst(f, c, writeOk, bindings, taskId, intentId) ==
    Bind({[file |-> r.file, cache |-> r.cache,
           bindings |-> [bindings EXCEPT ![taskId] = intentId],
           threw |-> r.threw \/ ~r.found,
           error |-> IF r.threw THEN r.error
                     ELSE IF ~r.found THEN IntentNotFound(intentId) ELSE NoError,
           read |-> r.read, wrote |-> r.wrote] :
          r \in {GetIntent(f, c, writeOk, intentId)}})

\* IntentManager.setActiveIntent: the resource, cache and bindings after the
\* call, and what it threw
SetActive(f, c, writeOk, bindings, taskId, intentId) ==
    Bind({[file |-> r.file, cache |-> r.cache,
           bindings |-> IF ~r.threw /\ r.found
                        THEN [bindings EXCEPT ![taskId] = intentId] ELSE bindings,
           threw |-> r.threw \/ ~r.found,
           error |-> IF r.threw THEN r.error
                     ELSE IF ~r.found THEN IntentNotFound(intentId) ELSE NoError,
           read |-> r.read, wrote |-> r.wrote] :
          r \in {GetIntent(f, c, writeOk, intentId)}})

\* clearActiveIntent as activeIntentsByTask.clear()
ClearActive_All(bindings, taskId) == [t \in DOMAIN bindings |-> Undefined]

\* IntentManager.clearActiveIntent: activeIntentsByTask.delete(taskId)
ClearActive(bindings, taskId) == [bindings EXCEPT ![taskId] = Undefined]

\* invalidateCache that also forgets the bindings
Invalidate_DropBindings(c, bindings) ==
    [cache |-> NullCache, bindings |-> [t \in DOMAIN bindings |-> Undefined]]

\* IntentManager.invalidateCache: the cache and the bindings after the call
Invalidate(c, bindings) == [cache |-> NullCache, bindings |-> bindings]

\* ------------------------------------------------------ structured patches
\* A patch text is its sequence of lines; <<>> is the empty string (an absent
\* patch parameter behaves the same: both are falsy).
Line(k, p) == [k |-> k, path |-> p]
BeginPatch == Line("begin", "")
EndPatch == Line("end", "")
Body == Line("body", "")

NoPatch == <<>>
PatchNoHunks == <<BeginPatch, EndPatch>>
PatchUpdateIn == <<BeginPatch, Line("update", "src/a.ts"), Body, EndPatch>>
PatchInThenOut ==
    <<BeginPatch, Line("update", "src/a.ts"), Body, Line("add", "docs/r.md"), Body, EndPatch>>
PatchMoveOut ==
    <<BeginPatch, Line("update", "src/a.ts"), Line("move", "docs/r.md"), Body, EndPatch>>
PatchMoveIn ==
    <<BeginPatch, Line("update", "src/a.ts"), Line("move", "src/c.ts"), Body, EndPatch>>
PatchOutThenMoveOut ==
    <<BeginPatch, Line("add", "README.md"), Body,
      Line("update", "src/a.ts"), Line("move", "docs/r.md"), Body, EndPatch>>
PatchDelete == <<BeginPatch, Line("delete", "src/legacy/b.ts"), EndPatch>>
PatchTruncated == <<BeginPatch, Line("update", "src/a.ts"), Body>>
PatchStrayMove == <<BeginPatch, Line("move", "src/c.ts"), Body, EndPatch>>

Patches == {PatchNoHunks, PatchUpdateIn, PatchInThenOut, PatchMoveOut, PatchMoveIn,
            PatchOutThenMoveOut, PatchDelete, PatchTruncated, PatchStrayMove}

Hunk(type, path, movePath) == [type |-> type, path |-> path, movePath |-> movePath]

\* first index from i on whose line is not a body line
RECURSIVE SkipBody(_, _)
SkipBody(lines, i) ==
    IF i <= Len(lines) /\ lines[i].k = "body" THEN SkipBody(lines, i + 1) ELSE i

RECURSIVE ParseHunks(_, _, _)

\* an update hunk at line i: its optional move line, then at least one body line
ParseUpdate(lines, i, acc, hasMove) ==
    Bind({IF e = i + 1 + (IF hasMove THEN 1 ELSE 0)
          THEN [next |-> 0, acc |-> acc]
          ELSE [next |-> e,
                acc |-> Append(acc, Hunk("UpdateFile", lines[i].path,
                                         IF hasMove THEN lines[i + 1].path ELSE Undefined))] :
          e \in {SkipBody(lines, i + 1 + (IF hasMove THEN 1 ELSE 0))}})

\* the hunk that starts at line i: where the next one starts (0: parse error)
\* and the hunks so far
ParseHunk(lines, i, acc) ==
    CASE lines[i].k = "add" ->
           [next |-> SkipBody(lines, i + 1),
            acc |-> Append(acc, Hunk("AddFile", lines[i].path, Undefined))]
      [] lines[i].k = "delete" ->
           [next |-> i + 1, acc |-> Append(acc, Hunk("DeleteFile", lines[i].path, Undefined))]
      [] lines[i].k = "update" -> ParseUpdate(lines, i, acc, lines[i + 1].k = "move")
      [] OTHER -> [next |-> 0, acc |-> acc]

\* the hunks of lines[i .. Len-1]
ParseHunks(lines, i, acc) ==
    IF i >= Len(lines) THEN [ok |-> TRUE, hunks |-> acc]
    ELSE Bind({IF h.next = 0 THEN [ok |-> FALSE, hunks |-> <<>>]
               ELSE ParseHunks(lines, h.next, h.acc) :
               h \in {ParseHunk(lines, i, acc)}})

\* parsePatch: ok = FALSE is a thrown parse error
ParsePatch(patch) ==
    IF Len(patch) < 2 \/ patch[1].k # "begin" \/ patch[Len(patch)].k # "end"
    THEN [ok |-> FALSE, hunks |-> <<>>]
    ELSE ParseHunks(patch, 2, <<>>)

\* ------------------------------------------------------------ PreToolHook
\* a tool set that has gained read_file
DESTRUCTIVE_TOOLS_WithRead ==
    {"write_to_file", "execute_command", "edit", "search_and_replace",
     "edit_file", "search_replace", "apply_diff", "apply_patch", "read_file"}

DESTRUCTIVE_TOOLS == {"write_to_file", "execute_command", "edit", "search_and_replace",
                      "edit_file", "search_replace", "apply_diff", "apply_patch"}


IsDestructive(toolName) == toolName \in DESTRUCTIVE_TOOLS

\* hunk paths without the move destinations
RECURSIVE HunkPaths_NoMove(_)
HunkPaths_NoMove(hunks) ==
    IF hunks = <<>> THEN <<>> ELSE <<Head(hunks).path>> \o HunkPaths_NoMove(Tail(hunks))

\* lines 68-75: hunk.path, then hunk.movePath of an update hunk that has one
RECURSIVE HunkPaths(_)
HunkPaths(hunks) ==
    IF hunks = <<>> THEN <<>>
    ELSE <<Head(hunks).path>>
         \o (IF Head(hunks).type = "UpdateFile" /\ Truthy(Head(hunks).movePath)
             THEN <<Head(hunks).movePath>> ELSE <<>>)
         \o HunkPaths(Tail(hunks))

\* filePath ? [filePath] : []
PathList(filePath) == IF Truthy(filePath) THEN <<filePath>> ELSE <<>>

\* PreToolHook.extractPathsForScopeValidation: threw, or the paths
ExtractPathsForScopeValidation(toolName, toolParams) ==
    IF toolName \in {"write_to_file", "apply_diff"}
    THEN [threw |-> FALSE, paths |-> PathList(OrElse(toolParams.path, toolParams.file_path))]
    ELSE IF toolName \in {"edit", "search_and_replace", "search_replace", "edit_file"}
    THEN [threw |-> FALSE, paths |-> PathList(OrElse(toolParams.file_path, toolParams.path))]
    ELSE IF toolName = "apply_patch"
    THEN IF toolParams.patch = NoPatch THEN [threw |-> FALSE, paths |-> <<>>]
         ELSE Bind({IF ~parsed.ok THEN [threw |-> TRUE, paths |-> <<>>]
                    ELSE [threw |-> FALSE, paths |-> HunkPaths(parsed.hunks)] :
                    parsed \in {ParsePatch(toolParams.patch)}})
    ELSE [threw |-> FALSE, paths |-> <<>>]

\* What run() gives back: outcome allowed / denied / threw; for a denial the
\* message template and what the message names.
PreResult(outcome, msg, toolName, intent, path) ==
    [outcome |-> outcome, msg |-> msg, toolName |-> toolName,
     intentId |-> intent.id, path |-> path, scope |-> intent.ownedScope]

Allowed == PreResult("allowed", "", "", NoIntent, "")
Threw == PreResult("threw", "", "", NoIntent, "")

\* index of the last path the scope does not hold, 0 when there is none
LastOutOfScope(paths, scope) ==
    IF \E i \in 1..Len(paths) : ~ValidatePath(paths[i], scope)
    THEN CHOOSE i \in 1..Len(paths) :
             /\ ~ValidatePath(paths[i], scope)
             /\ \A j \in (i + 1)..Len(paths) : ValidatePath(paths[j], scope)
    ELSE 0

\* lines 149-157: index of the first path the scope does not hold, 0 when there is none
FirstOutOfScope(paths, scope) ==
    IF \E i \in 1..Len(paths) : ~ValidatePath(paths[i], scope)
    THEN CHOOSE i \in 1..Len(paths) :
             /\ ~ValidatePath(paths[i], scope)
             /\ \A j \in 1..(i - 1) : ValidatePath(paths[j], scope)
    ELSE 0

\* extraction failure taken as "no targets"
CheckScope_IgnoreFailure(context, activeIntent) ==
    Bind({IF FirstOutOfScope(ex.paths, activeIntent.ownedScope) # 0
          THEN PreResult("denied", "NotAuthorizedToEdit", "", activeIntent,
                         ex.paths[FirstOutOfScope(ex.paths, activeIntent.ownedScope)])
          ELSE Allowed :
          ex \in {ExtractPathsForScopeValidation(context.toolName, context.toolParams)}})

\* lines 138-160 of run(): extraction and the scope loop, given the intent
CheckScope(context, activeIntent) ==
    Bind({IF ex.threw
          THEN PreResult("denied", "InvalidPayload", context.toolName, NoIntent, "")
          ELSE IF FirstOutOfScope(ex.paths, activeIntent.ownedScope) # 0
          THEN PreResult("denied", "NotAuthorizedToEdit", "", activeIntent,
                         ex.paths[FirstOutOfScope(ex.paths, activeIntent.ownedScope)])
          ELSE Allowed :
          ex \in {ExtractPathsForScopeValidation(context.toolName, context.toolParams)}})

\* no lookup was made: activeIntent is still null
NotLookedUp(f, c) ==
    [file |-> f, cache |-> c, threw |-> FALSE, found |-> FALSE, intent |-> NoIntent,
     error |-> NoError, read |-> FALSE, wrote |-> FALSE]

\* a resolution that asks for the task's binding first and only then for the
\* explicit id
ResolveIntent_BindingFirst(context, f, c, bindings, writeOk) ==
    Bind({IF byTask.threw \/ byTask.found \/ ~Truthy(context.activeIntentId) THEN byTask
          ELSE GetIntent(byTask.file, byTask.cache, writeOk, context.activeIntentId) :
          byTask \in {GetActiveIntent(f, c, writeOk, bindings, context.taskId)}})

\* lines 96-120 of run(): the explicit id first, then the task's binding
ResolveIntent(context, f, c, bindings, writeOk) ==
    Bind({IF byId.threw \/ byId.found THEN byId
          ELSE GetActiveIntent(byId.file, byId.cache, writeOk, bindings, context.taskId) :
          byId \in {IF Truthy(context.activeIntentId)
                    THEN GetIntent(f, c, writeOk, context.activeIntentId)
                    ELSE NotLookedUp(f, c)}})

\* run() without the check that an intent was found
GateResult_SkipIntentCheck(context, r) ==
    IF r.threw THEN Threw
    ELSE IF context.toolName = "execute_command"
    THEN PreResult("denied", "CannotAuthorizeCommand", "execute_command", r.intent, "")
    ELSE CheckScope(context, r.intent)

\* run() with execute_command sent through the scope check like the file tools
GateResult_CommandScoped(context, r) ==
    IF r.threw THEN Threw
    ELSE IF ~r.found
    THEN PreResult("denied", "NoActiveIntent", context.toolName, NoIntent, "")
    ELSE CheckScope(context, r.intent)

\* run() that takes a failed lookup for leave to go on
GateResult_ErrorAllows(context, r) ==
    IF r.threw THEN Allowed
    ELSE IF ~r.found
    THEN PreResult("denied", "NoActiveIntent", context.toolName, NoIntent, "")
    ELSE IF context.toolName = "execute_command"
    THEN PreResult("denied", "CannotAuthorizeCommand", "execute_command", r.intent, "")
    ELSE CheckScope(context, r.intent)

\* lines 122-160 of run(): the decision, given the outcome r of the resolution
GateResult(context, r) ==
    IF r.threw THEN Threw
    ELSE IF ~r.found
    THEN PreResult("denied", "NoActiveIntent", context.toolName, NoIntent, "")
    ELSE IF context.toolName = "execute_command"
    THEN PreResult("denied", "CannotAuthorizeCommand", "execute_command", r.intent, "")
    ELSE CheckScope(context, r.intent)

\* PreToolHook.run: the result, the intent it resolved, the resource and cache after
PreToolHookRun(context, f, c, bindings, writeOk) ==
    IF ~IsDestructive(context.toolName)
    THEN [result |-> Allowed, resolved |-> FALSE, intent |-> NoIntent, file |-> f, cache |-> c]
    ELSE Bind({[file |-> r.file, cache |-> r.cache, resolved |-> r.found,
                intent |-> r.intent, result |-> GateResult(context, r)] :
               r \in {ResolveIntent(context, f, c, bindings, writeOk)}})

\* ---------------------------------------------------------- TracePostHook
\* targets that are all classed as modifications
HunkTarget_AllModify(h) == [path |-> h.path, mutationClass |-> "MODIFY"]

\* the target of a hunk's own path
HunkTarget(h) ==
    [path |-> h.path, mutationClass |-> IF h.type = "AddFile" THEN "CREATE" ELSE "MODIFY"]

\* lines 223-232: the targets of the hunks, a move destination after its source
RECURSIVE HunkTargets(_)
HunkTargets(hunks) ==
    IF hunks = <<>> THEN <<>>
    ELSE <<HunkTarget(Head(hunks))>>
         \o (IF Head(hunks).type = "UpdateFile" /\ Truthy(Head(hunks).movePath)
             THEN <<[path |-> Head(hunks).movePath, mutationClass |-> "MODIFY"]>>
             ELSE <<>>)
         \o HunkTargets(Tail(hunks))

\* filePath ? [{ path: filePath, mutationClass: "MODIFY" }] : []
ModifyList(filePath) ==
    IF Truthy(filePath) THEN <<[path |-> filePath, mutationClass |-> "MODIFY"]>> ELSE <<>>

\* extractTraceTargets that takes execute_command for a whole-file write
ExtractTraceTargets_CommandTarget(toolName, toolParams) ==
    IF toolName \in {"write_to_file", "apply_diff", "execute_command"}
    THEN [threw |-> FALSE, targets |-> ModifyList(OrElse(toolParams.path, toolParams.file_path))]
    ELSE IF toolName \in {"edit", "search_and_replace", "search_replace", "edit_file"}
    THEN [threw |-> FALSE, targets |-> ModifyList(OrElse(toolParams.file_path, toolParams.path))]
    ELSE IF toolName = "apply_patch"
    THEN IF toolParams.patch = NoPatch THEN [threw |-> FALSE, targets |-> <<>>]
         ELSE Bind({IF ~parsed.ok THEN [threw |-> TRUE, targets |-> <<>>]
                    ELSE [threw |-> FALSE, targets |-> HunkTargets(parsed.hunks)] :
                    parsed \in {ParsePatch(toolParams.patch)}})
    ELSE [threw |-> FALSE, targets |-> <<>>]

\* TracePostHook.extractTraceTargets: threw, or the targets
ExtractTraceTargets(toolName, toolParams) ==
    IF toolName \in {"write_to_file", "apply_diff"}
    THEN [threw |-> FALSE, targets |-> ModifyList(OrElse(toolParams.path, toolParams.file_path))]
    ELSE IF toolName \in {"edit", "search_and_replace", "search_replace", "edit_file"}
    THEN [threw |-> FALSE, targets |-> ModifyList(OrElse(toolParams.file_path, toolParams.path))]
    ELSE IF toolName = "apply_patch"
    THEN IF toolParams.patch = NoPatch THEN [threw |-> FALSE, targets |-> <<>>]
         ELSE Bind({IF ~parsed.ok THEN [threw |-> TRUE, targets |-> <<>>]
                    ELSE [threw |-> FALSE, targets |-> HunkTargets(parsed.hunks)] :
                    parsed \in {ParsePatch(toolParams.patch)}})
    ELSE [threw |-> FALSE, targets |-> <<>>]

\* TracePostHook.getActiveIntent
TraceGetActiveIntent(context, f, c, bindings, writeOk) ==
    Bind({IF byId.threw \/ byId.found THEN byId
          ELSE GetActiveIntent(byId.file, byId.cache, writeOk, bindings, context.taskId) :
          byId \in {IF Truthy(context.activeIntentId)
                    THEN GetIntent(f, c, writeOk, context.activeIntentId)
                    ELSE NotLookedUp(f, c)}})

\* the entry run() builds for one target (the timestamp is left out)
TraceEntry(activeIntent, contentHash, target, toolName) ==
    [intentId |-> activeIntent.id, contentHash |-> contentHash, filePath |-> target.path,
     mutationClass |-> target.mutationClass, toolName |-> toolName]

\* a store whose append replaces the content of the log
AppendFile_Overwrite(log, entry) == <<entry>>

\* storage.appendFile("agent_trace.jsonl", line): the log with the line at its end
AppendFile(log, entry) == Append(log, entry)

\* -------------------------------------------------------------- HookEngine
\* A chain that reports allowed whatever its hooks returned.
ExecutePreHooks_AllowAll(results) == Allowed

\* executePreHooks over the results of the registered hooks, in order: the
\* first result that is not allowed, else allowed.
RECURSIVE ExecutePreHooks(_)
ExecutePreHooks(results) ==
    IF results = <<>> THEN Allowed
    ELSE IF Head(results).outcome # "allowed" THEN Head(results)
    ELSE ExecutePreHooks(Tail(results))

\* ------------------------------------------------------------------ state
Tasks == {"t1", "t2"}

IntentIds == {"INT-001", "INT-002", ""}

Context(toolName, toolParams, taskId, activeIntentId) ==
    [toolName |-> toolName, toolParams |-> toolParams, taskId |-> taskId,
     activeIntentId |-> activeIntentId]

Params(path, filePath, patch) == [path |-> path, file_path |-> filePath, patch |-> patch]

NoParams == Params(Undefined, Undefined, NoPatch)

NoContext == Context("", NoParams, "", Undefined)

\* a request of the dispatch pipeline, one slot per task; fresh: the path the
\* tool was given named no file before the tool ran
IdleRequest ==
    [pc |-> "idle", context |-> NoContext, hook |-> Allowed, pre |-> Allowed,
     intent |-> NoIntent, executed |-> FALSE, fresh |-> FALSE, auditIntent |-> NoIntent,
     targets |-> <<>>, appended |-> 0, reads |-> <<>>, post |-> ""]

\* the gate called on its own
IdleGate == [pc |-> "idle", context |-> NoContext, result |-> Allowed, intent |-> NoIntent]

IdleMatcher == [pc |-> "idle", path |-> "", patterns |-> <<>>, result |-> FALSE]

\* what happened since the cache was last invalidated (or the manager built):
\* whether loadIntents was called from outside, whether such a call returned
\* and what the first one that did returned, and the tasks whose binding a
\* successful setActiveIntent made with no clearActiveIntent for the task since
NoHistory == [loadCalled |-> FALSE, loadOk |-> FALSE, loadVal |-> <<>>, fresh |-> {}]

\* the last call made to the IntentManager from outside: what it was given,
\* what it returned or threw, whether it read the resource or tried to write
\* it, and the resource, cache, bindings and history it found
IdleCall ==
    [op |-> "none", taskId |-> "", intentId |-> Undefined, threw |-> FALSE,
     error |-> NoError, val |-> <<>>, found |-> FALSE, intent |-> NoIntent,
     read |-> FALSE, wrote |-> FALSE, writeOk |-> TRUE,
     fileBefore |-> "missing", fileAfter |-> "missing", cacheBefore |-> NullCache,
     bindingsBefore |-> [t \in Tasks |-> Undefined], histBefore |-> NoHistory]

\* normalization of one document written in the two styles
IdleNormalizer == [pc |-> "idle", entries |-> <<>>, camel |-> <<>>, snake |-> <<>>]

\* the calls made to the IntentManager, in the order they were made, each with
\* the await it is suspended at; staleStore: a call stored in the cache what it
\* had read before an invalidateCache()
IdleFlight == [calls |-> <<>>, staleStore |-> FALSE]

\* a call as it is made: pc is the await it is suspended at ("exists",
\* "init", "read"), "store" when the resource has answered, "resume" when
\* loadIntents has returned to its caller, "done" when the call is settled
NewCall(op, taskId, intentId) ==
    [op |-> op, taskId |-> taskId, intentId |-> intentId, pc |-> "done",
     content |-> "missing", intents |-> <<>>, threw |-> FALSE, error |-> NoError,
     bound |-> FALSE, stale |-> FALSE]

\* the HookEngine running its hooks over one request: the kind of chain, what
\* each registered pre-hook returns and what each post-action does for the
\* request, the index of the next one, the ones invoked so far, the failures
\* noted, and what the chain returned
IdleChain ==
    [pc |-> "idle", kind |-> "", hooks |-> <<>>, actions |-> <<>>, next |-> 1,
     invoked |-> <<>>, reported |-> <<>>, result |-> Allowed, postResult |-> ""]

\* IntentManager after its constructor; the resource is whatever the workspace holds
RegistryInit(files) ==
    /\ file \in files
    /\ intentsCache = NullCache
    /\ activeIntentsByTask = [t \in Tasks |-> Undefined]

InitOver(files) ==
    /\ RegistryInit(files)
    /\ traceLog = <<>>
    /\ req = [t \in Tasks |-> IdleRequest]
    /\ nreq = 0
    /\ gate = IdleGate
    /\ sm = IdleMatcher
    /\ regCall = IdleCall
    /\ hist = NoHistory
    /\ nz = IdleNormalizer
    /\ flight = IdleFlight
    /\ chain = IdleChain

Init == InitOver(FileStates)

\* -------------------------------------------------------- registry actions
\* fs.writeFile in initializeIntentsFile succeeds or fails; it is only reached
\* when the file is missing
WriteOutcomes(f) == IF f = "missing" THEN BOOLEAN ELSE {TRUE}

\* IntentManager.loadIntents called on its own
Load ==
    \E writeOk \in WriteOutcomes(file) :
        \E l \in {LoadIntents(file, intentsCache, writeOk)} :
        /\ file' = l.file
        /\ intentsCache' = l.cache
        /\ UNCHANGED <<activeIntentsByTask, traceLog, req, nreq, gate, sm, regCall, hist, nz, flight, chain>>

\* IntentManager.setActiveIntent
SetActiveIntent ==
    \E taskId \in Tasks, intentId \in IntentIds, writeOk \in WriteOutcomes(file) :
        \E r \in {GetIntent(file, intentsCache, writeOk, intentId)} :
        /\ file' = r.file
        /\ intentsCache' = r.cache
        /\ activeIntentsByTask' =
              IF r.found THEN [activeIntentsByTask EXCEPT ![taskId] = intentId]
              ELSE activeIntentsByTask
        /\ UNCHANGED <<traceLog, req, nreq, gate, sm, regCall, hist, nz, flight, chain>>

\* IntentManager.clearActiveIntent
ClearActiveIntent ==
    \E taskId \in Tasks :
        /\ activeIntentsByTask' = [activeIntentsByTask EXCEPT ![taskId] = Undefined]
        /\ UNCHANGED <<file, intentsCache, traceLog, req, nreq, gate, sm, regCall, hist, nz, flight, chain>>

\* IntentManager.invalidateCache
InvalidateCache ==
    /\ intentsCache' = NullCache
    /\ UNCHANGED <<file, activeIntentsByTask, traceLog, req, nreq, gate, sm, regCall,
                   hist, nz, flight, chain>>

\* active_intents.yaml edited, replaced or removed from outside
ExternalEditTo(files) ==
    /\ \E f \in files \ {file} : file' = f
    /\ UNCHANGED <<intentsCache, activeIntentsByTask, traceLog, req, nreq, gate, sm,
                   regCall, hist, nz, flight, chain>>

ExternalEdit == ExternalEditTo(FileStates)

\* ------------------------------------- the IntentManager called on its own
\* what every call records of the state it found
CallOn(op, taskId, intentId, writeOk) ==
    [IdleCall EXCEPT !.op = op, !.taskId = taskId, !.intentId = intentId,
                     !.writeOk = writeOk, !.fileBefore = file, !.fileAfter = file,
                     !.cacheBefore = intentsCache,
                     !.bindingsBefore = activeIntentsByTask, !.histBefore = hist]

\* await intentManager.loadIntents()
RegLoad ==
    \E writeOk \in WriteOutcomes(file) :
        \E l \in {LoadIntents(file, intentsCache, writeOk)} :
        /\ file' = l.file
        /\ intentsCache' = l.cache
        /\ regCall' = [CallOn("loadIntents", "", Undefined, writeOk) EXCEPT
                          !.threw = l.threw, !.error = l.error, !.val = l.val,
                          !.read = l.read, !.wrote = l.wrote, !.fileAfter = l.file]
        /\ hist' = [hist EXCEPT !.loadCalled = TRUE,
                                !.loadOk = @ \/ ~l.threw,
                                !.loadVal = IF ~hist.loadOk /\ ~l.threw THEN l.val ELSE @]
        /\ UNCHANGED <<activeIntentsByTask, traceLog, req, nreq, gate, sm, nz, flight, chain>>

\* await intentManager.setActiveIntent(taskId, intentId)
RegSetActive ==
    \E taskId \in Tasks, intentId \in IntentIds, writeOk \in WriteOutcomes(file) :
        \E r \in {SetActive(file, intentsCache, writeOk, activeIntentsByTask,
                             taskId, intentId)} :
        /\ file' = r.file
        /\ intentsCache' = r.cache
        /\ activeIntentsByTask' = r.bindings
        /\ regCall' = [CallOn("setActiveIntent", taskId, intentId, writeOk) EXCEPT
                          !.threw = r.threw, !.error = r.error,
                          !.read = r.read, !.wrote = r.wrote, !.fileAfter = r.file]
        /\ hist' = [hist EXCEPT !.fresh = IF r.threw THEN @ ELSE @ \cup {taskId}]
        /\ UNCHANGED <<traceLog, req, nreq, gate, sm, nz, flight, chain>>

\* await intentManager.getActiveIntent(taskId)
RegGetActive ==
    \E taskId \in Tasks, writeOk \in WriteOutcomes(file) :
        \E r \in {GetActiveIntent(file, intentsCache, writeOk, activeIntentsByTask,
                                   taskId)} :
        /\ file' = r.file
        /\ intentsCache' = r.cache
        /\ regCall' = [CallOn("getActiveIntent", taskId, activeIntentsByTask[taskId],
                              writeOk) EXCEPT
                          !.threw = r.threw, !.error = r.error, !.found = r.found,
                          !.intent = r.intent, !.read = r.read, !.wrote = r.wrote,
                          !.fileAfter = r.file]
        /\ UNCHANGED <<activeIntentsByTask, traceLog, req, nreq, gate, sm, hist, nz, flight, chain>>

\* await intentManager.clearActiveIntent(taskId)
RegClear ==
    \E taskId \in Tasks :
        /\ activeIntentsByTask' = ClearActive(activeIntentsByTask, taskId)
        /\ regCall' = CallOn("clearActiveIntent", taskId, Undefined, TRUE)
        /\ hist' = [hist EXCEPT !.fresh = @ \ {taskId}]
        /\ UNCHANGED <<file, intentsCache, traceLog, req, nreq, gate, sm, nz, flight, chain>>

\* intentManager.invalidateCache()
RegInvalidate ==
    \E r \in {Invalidate(intentsCache, activeIntentsByTask)} :
        /\ intentsCache' = r.cache
        /\ activeIntentsByTask' = r.bindings
        /\ regCall' = CallOn("invalidateCache", "", Undefined, TRUE)
        /\ hist' = NoHistory
        /\ UNCHANGED <<file, traceLog, req, nreq, gate, sm, nz, flight, chain>>

NextRegistry ==
    \/ RegLoad
    \/ RegSetActive
    \/ RegGetActive
    \/ RegClear
    \/ RegInvalidate
    \/ ExternalEdit

SpecRegistry == Init /\ [][NextRegistry]_vars

\* ----------------------------- IntentManager calls suspended at their awaits
\* the synchronous start of loadIntents (lines 24-28): the cache is returned, or
\* fileExists is awaited
StartLoad(c, call) ==
    IF c.loaded THEN [call EXCEPT !.pc = "resume", !.intents = c.intents]
    ELSE [call EXCEPT !.pc = "exists"]

\* setActiveIntent(taskId, intentId) is called: it runs up to its first await
FlightSetActive(tasks) ==
    /\ Len(flight.calls) < MaxCalls
    /\ \E taskId \in tasks, intentId \in IntentIds :
          flight' = [flight EXCEPT !.calls =
                        Append(@, StartLoad(intentsCache,
                                            NewCall("setActiveIntent", taskId, intentId)))]
    /\ UNCHANGED <<file, intentsCache, activeIntentsByTask, traceLog, req, nreq, gate, sm,
                   regCall, hist, nz, chain>>

\* clearActiveIntent(taskId) is called: it has no await and runs at once
FlightClear(tasks) ==
    /\ Len(flight.calls) < MaxCalls
    /\ \E taskId \in tasks :
          /\ activeIntentsByTask' = ClearActive(activeIntentsByTask, taskId)
          /\ flight' = [flight EXCEPT !.calls =
                           Append(@, NewCall("clearActiveIntent", taskId, Undefined))]
    /\ UNCHANGED <<file, intentsCache, traceLog, req, nreq, gate, sm, regCall, hist, nz,
                   chain>>

\* loadIntents() is called: it runs up to its first await
FlightLoad ==
    /\ Len(flight.calls) < MaxCalls
    /\ flight' = [flight EXCEPT !.calls =
                     Append(@, StartLoad(intentsCache, NewCall("loadIntents", "", Undefined)))]
    /\ UNCHANGED <<file, intentsCache, activeIntentsByTask, traceLog, req, nreq, gate, sm,
                   regCall, hist, nz, chain>>

\* storage.fileExists answers (line 28): readFile or the default write is next
FlightExists(i) ==
    /\ flight.calls[i].pc = "exists"
    /\ flight' = [flight EXCEPT !.calls[i].pc = IF file = "missing" THEN "init" ELSE "read"]
    /\ UNCHANGED <<file, intentsCache, activeIntentsByTask, traceLog, req, nreq, gate, sm,
                   regCall, hist, nz, chain>>

\* initializeIntentsFile writes the default document, or fails to (lines 31, 145-157)
FlightInit(i) ==
    /\ flight.calls[i].pc = "init"
    /\ \E writeOk \in BOOLEAN :
          file' = IF writeOk THEN LoadIntents("missing", NullCache, writeOk).file ELSE file
    /\ flight' = [flight EXCEPT !.calls[i].pc = "store", !.calls[i].content = "default"]
    /\ UNCHANGED <<intentsCache, activeIntentsByTask, traceLog, req, nreq, gate, sm,
                   regCall, hist, nz, chain>>

\* storage.readFile reads the resource as it is now (line 37)
FlightRead(i) ==
    /\ flight.calls[i].pc = "read"
    /\ flight' = [flight EXCEPT !.calls[i].pc = "store", !.calls[i].content = file]
    /\ UNCHANGED <<file, intentsCache, activeIntentsByTask, traceLog, req, nreq, gate, sm,
                   regCall, hist, nz, chain>>

\* what parsing the content read gives (lines 38-61); a resource removed since
\* fileExists makes readFile throw inside the try block
ParseRead(content) ==
    IF content = "missing"
    THEN [file |-> content, cache |-> NullCache, threw |-> TRUE, val |-> <<>>,
          error |-> FailedToParse("ENOENT"), read |-> TRUE, wrote |-> FALSE]
    ELSE LoadIntents(content, NullCache, TRUE)

\* loadIntents resumes after its await: it parses what was read, assigns the
\* cache (lines 32, 49, 54) and returns or throws
FlightStore(i) ==
    /\ flight.calls[i].pc = "store"
    /\ \E l \in {ParseRead(flight.calls[i].content)} :
          /\ intentsCache' = IF l.threw THEN intentsCache ELSE l.cache
          /\ flight' = [flight EXCEPT
                           !.calls[i].pc = "resume",
                           !.calls[i].intents = l.val,
                           !.calls[i].threw = l.threw,
                           !.calls[i].error = l.error,
                           !.staleStore = @ \/ (~l.threw /\ flight.calls[i].stale)]
    /\ UNCHANGED <<file, activeIntentsByTask, traceLog, req, nreq, gate, sm, regCall, hist,
                   nz, chain>>

\* the caller of loadIntents resumes: loadIntents() itself is settled;
\* setActiveIntent looks the id up in what was loaded and binds it (lines 69-72, 81-86)
FlightFinish(i) ==
    /\ flight.calls[i].pc = "resume"
    /\ IF flight.calls[i].op = "loadIntents" \/ flight.calls[i].threw
       THEN /\ flight' = [flight EXCEPT !.calls[i].pc = "done"]
            /\ UNCHANGED activeIntentsByTask
       ELSE \E r \in {SetActive(file, Cached(flight.calls[i].intents), TRUE,
                                 activeIntentsByTask, flight.calls[i].taskId,
                                 flight.calls[i].intentId)} :
            /\ activeIntentsByTask' = r.bindings
            /\ flight' = [flight EXCEPT !.calls[i].pc = "done",
                                        !.calls[i].threw = r.threw,
                                        !.calls[i].error = r.error,
                                        !.calls[i].bound = ~r.threw]
    /\ UNCHANGED <<file, intentsCache, traceLog, req, nreq, gate, sm, regCall, hist, nz,
                   chain>>

\* invalidateCache() is called while calls are suspended; a call that has
\* already read the resource is from now on holding a read made before it
FlightInvalidate ==
    /\ intentsCache' = Invalidate(intentsCache, activeIntentsByTask).cache
    /\ flight' = [flight EXCEPT !.calls =
                     [i \in 1..Len(flight.calls) |->
                        IF flight.calls[i].pc = "store"
                        THEN [flight.calls[i] EXCEPT !.stale = TRUE]
                        ELSE flight.calls[i]]]
    /\ UNCHANGED <<file, activeIntentsByTask, traceLog, req, nreq, gate, sm, regCall, hist,
                   nz, chain>>

\* the task whose binding concurrent calls are made on
BindingTasks == {"t1"}

\* concurrent setActiveIntent and clearActiveIntent calls on one task
NextBinding ==
    \/ FlightSetActive(BindingTasks)
    \/ FlightClear(BindingTasks)
    \/ \E i \in 1..Len(flight.calls) : FlightExists(i)
    \/ \E i \in 1..Len(flight.calls) : FlightInit(i)
    \/ \E i \in 1..Len(flight.calls) : FlightRead(i)
    \/ \E i \in 1..Len(flight.calls) : FlightStore(i)
    \/ \E i \in 1..Len(flight.calls) : FlightFinish(i)

SpecBinding == Init /\ [][NextBinding]_vars

\* what the resource holds while loadIntents calls are suspended
FlightFiles == {"missing", "doc1", "doc2"}

\* loadIntents calls suspended while the cache is invalidated and the resource edited
NextFlight ==
    \/ FlightLoad
    \/ \E i \in 1..Len(flight.calls) : FlightExists(i)
    \/ \E i \in 1..Len(flight.calls) : FlightInit(i)
    \/ \E i \in 1..Len(flight.calls) : FlightRead(i)
    \/ \E i \in 1..Len(flight.calls) : FlightStore(i)
    \/ \E i \in 1..Len(flight.calls) : FlightFinish(i)
    \/ FlightInvalidate
    \/ ExternalEditTo(FlightFiles)

SpecFlight == InitOver(FlightFiles) /\ [][NextFlight]_vars

\* ---------------------------------------------------- the dispatch pipeline
PipeCalls == {<<"write_to_file", Params("docs/r.md", Undefined, NoPatch), Undefined>>,
              <<"write_to_file", Params("docs/r.md", Undefined, NoPatch), "INT-002">>,
              <<"apply_patch", Params(Undefined, Undefined, PatchMoveIn), Undefined>>,
              <<"read_file", Params("docs/r.md", Undefined, NoPatch), Undefined>>,
              <<"execute_command", NoParams, Undefined>>}

PipeFiles == {"doc1", "doc2", "bad"}

\* where a request goes after the pre-hooks: on to its handler, or to its end
AfterPre(pre) == IF pre.outcome = "allowed" THEN "checked" ELSE "done"

\* presentAssistantMessage takes a tool_use block of task t: it builds the
\* context and awaits the pre-hooks (PreToolHook is the registered one)
Dispatch(t) ==
    /\ req[t].pc \in {"idle", "done"}
    /\ nreq < MaxRequests
    /\ \E call \in PipeCalls, writeOk \in WriteOutcomes(file) :
          \E toolName \in {call[1]}, toolParams \in {call[2]}, activeIntentId \in {call[3]} :
          \E d \in {PreToolHookRun(Context(toolName, toolParams, t, activeIntentId),
                                   file, intentsCache, activeIntentsByTask, writeOk)} :
          \E pre \in {ExecutePreHooks(<<d.result>>)} :
             /\ req' = [req EXCEPT ![t] =
                          [IdleRequest EXCEPT
                              !.pc = AfterPre(pre),
                              !.context = Context(toolName, toolParams, t, activeIntentId),
                              !.hook = d.result, !.pre = pre, !.intent = d.intent]]
             /\ file' = d.file
             /\ intentsCache' = d.cache
    /\ nreq' = nreq + 1
    /\ UNCHANGED <<activeIntentsByTask, traceLog, gate, sm, regCall, hist, nz, flight, chain>>

\* the tool handler of the request runs
Execute(t) ==
    /\ req[t].pc = "checked"
    /\ req' = [req EXCEPT ![t].pc = "executed", ![t].executed = TRUE]
    /\ UNCHANGED <<file, intentsCache, activeIntentsByTask, traceLog, nreq, gate, sm,
                   regCall, hist, nz, flight, chain>>

\* TracePostHook.run up to its loop (lines 253-268)
PostStart(t) ==
    /\ req[t].pc = "executed"
    /\ IF ~IsDestructive(req[t].context.toolName)
       THEN /\ req' = [req EXCEPT ![t].pc = "done", ![t].post = "success"]
            /\ UNCHANGED <<file, intentsCache>>
       ELSE \E writeOk \in WriteOutcomes(file) :
            \E a \in {TraceGetActiveIntent(req[t].context, file, intentsCache,
                                           activeIntentsByTask, writeOk)} :
            \E x \in {ExtractTraceTargets(req[t].context.toolName,
                                          req[t].context.toolParams)} :
               /\ file' = a.file
               /\ intentsCache' = a.cache
               /\ req' = [req EXCEPT ![t] =
                            IF a.threw \/ (a.found /\ x.threw)
                            THEN [@ EXCEPT !.pc = "done", !.post = "threw"]
                            ELSE IF ~a.found \/ x.targets = <<>>
                            THEN [@ EXCEPT !.pc = "done", !.post = "success"]
                            ELSE [@ EXCEPT !.pc = "auditing", !.auditIntent = a.intent,
                                           !.targets = x.targets]]
    /\ UNCHANGED <<activeIntentsByTask, traceLog, nreq, gate, sm, regCall, hist, nz, flight, chain>>

\* computeContentHash that digests nothing when the file cannot be read
ComputeContentHash_Digest(readable) == "sha256"

\* computeContentHash: the digest of the file, "" when it cannot be read
ComputeContentHash(readable) == IF readable THEN "sha256" ELSE ""

\* one round of the loop of TracePostHook.run (lines 270-285); appendFile may fail,
\* and run() then throws
PostAppend(t) ==
    /\ req[t].pc = "auditing"
    /\ \E readable \in BOOLEAN, appendOk \in BOOLEAN :
          IF ~appendOk
          THEN /\ req' = [req EXCEPT ![t].pc = "done", ![t].post = "threw"]
               /\ traceLog' = traceLog
          ELSE /\ traceLog' = AppendFile(traceLog,
                                         TraceEntry(req[t].auditIntent,
                                                    ComputeContentHash(readable),
                                                    req[t].targets[req[t].appended + 1],
                                                    req[t].context.toolName))
               /\ req' = [req EXCEPT
                            ![t].appended = @ + 1,
                            ![t].reads = Append(@, readable),
                            ![t].pc = IF req[t].appended + 1 = Len(req[t].targets)
                                      THEN "done" ELSE "auditing",
                            ![t].post = IF req[t].appended + 1 = Len(req[t].targets)
                                        THEN "success" ELSE ""]
    /\ UNCHANGED <<file, intentsCache, activeIntentsByTask, nreq, gate, sm, regCall, hist, nz, flight, chain>>

Next ==
    \/ Load
    \/ SetActiveIntent
    \/ ClearActiveIntent
    \/ InvalidateCache
    \/ ExternalEditTo(PipeFiles)
    \/ \E t \in Tasks : Dispatch(t)
    \/ \E t \in Tasks : Execute(t)
    \/ \E t \in Tasks : PostStart(t)
    \/ \E t \in Tasks : PostAppend(t)

Spec == InitOver(PipeFiles) /\ [][Next]_vars

\* ------------------------------------------- the scope matcher on its own
PatternLists == UNION {[1..n -> Patterns] : n \in 0..MaxPatterns}

InitScope ==
    /\ RegistryInit({"missing"})
    /\ traceLog = <<>>
    /\ req = [t \in Tasks |-> IdleRequest]
    /\ nreq = 0
    /\ gate = IdleGate
    /\ regCall = IdleCall
    /\ hist = NoHistory
    /\ nz = IdleNormalizer
    /\ flight = IdleFlight
    /\ chain = IdleChain
    /\ sm \in {[pc |-> "input", path |-> p, patterns |-> ps, result |-> FALSE] :
                p \in Paths, ps \in PatternLists}

\* one call of validatePath(path, patterns)
ScopeCheck ==
    /\ sm.pc = "input"
    /\ sm' = [sm EXCEPT !.pc = "done", !.result = ValidatePath(sm.path, sm.patterns)]
    /\ UNCHANGED <<file, intentsCache, activeIntentsByTask, traceLog, req, nreq, gate,
                   regCall, hist, nz, flight, chain>>

SpecScope == InitScope /\ [][ScopeCheck]_vars

\* ---------------------------------------------- the normalizer on its own
\* what a document may hold in a field that should be a sequence of strings
ScopeValues ==
    {Undef, Null, Scalar, Arr(<<"docs/*">>), Arr(<<" !src/legacy/** ", "  ", "src/**">>)}

CriteriaValues == {Undef, Arr(<<>>), Arr(<<"  ", " tests pass ">>)}

\* an entry as its author means it, before a naming convention is chosen
EntryValues ==
    {[id |-> i, scope |-> sc, criteria |-> cr] :
        i \in {"INT-001", "INT-002", Undefined}, sc \in ScopeValues, cr \in CriteriaValues}

EntryLists == UNION {[1..n -> EntryValues] : n \in 0..MaxEntries}

\* the entry written with ownedScope / acceptanceCriteria
CamelEntry(e) ==
    [isNull |-> FALSE, id |-> e.id, ownedScope |-> e.scope, owned_scope |-> Undef,
     acceptanceCriteria |-> e.criteria, acceptance_criteria |-> Undef]

\* the entry written with owned_scope / acceptance_criteria
SnakeEntry(e) ==
    [isNull |-> FALSE, id |-> e.id, ownedScope |-> Undef, owned_scope |-> e.scope,
     acceptanceCriteria |-> Undef, acceptance_criteria |-> e.criteria]

\* yaml.parse of the document with root key "intents" and camelCase fields
CamelDocument(entries) ==
    [intents |-> Arr([i \in 1..Len(entries) |-> CamelEntry(entries[i])]),
     active_intents |-> Undef]

\* yaml.parse of the document with root key "active_intents" and snake_case fields
SnakeDocument(entries) ==
    [intents |-> Undef,
     active_intents |-> Arr([i \in 1..Len(entries) |-> SnakeEntry(entries[i])])]

InitNormalize ==
    /\ RegistryInit({"doc1"})
    /\ traceLog = <<>>
    /\ req = [t \in Tasks |-> IdleRequest]
    /\ nreq = 0
    /\ gate = IdleGate
    /\ sm = IdleMatcher
    /\ regCall = IdleCall
    /\ hist = NoHistory
    /\ nz \in {[IdleNormalizer EXCEPT !.pc = "input", !.entries = es] : es \in EntryLists}
    /\ flight = IdleFlight
    /\ chain = IdleChain

\* loadIntents (lines 42-56) on each of the two documents, from an empty cache
NormalizeBoth ==
    /\ nz.pc = "input"
    /\ nz' = [nz EXCEPT !.pc = "done",
                        !.camel = LoadParsed(file, NullCache,
                                             RawIntents(CamelDocument(nz.entries))).val,
                        !.snake = LoadParsed(file, NullCache,
                                             RawIntents(SnakeDocument(nz.entries))).val]
    /\ UNCHANGED <<file, intentsCache, activeIntentsByTask, traceLog, req, nreq, gate, sm,
                   regCall, hist, flight, chain>>

SpecNormalize == InitNormalize /\ [][NormalizeBoth]_vars

\* ------------------------------------------------- the gate called on its own
ToolNames == {"write_to_file", "execute_command", "edit", "search_and_replace", "edit_file",
              "search_replace", "apply_diff", "apply_patch", "read_file"}

\* the (path, file_path) pairs handed to the single-path tools
PathPairs == {<<Undefined, Undefined>>, <<"", Undefined>>, <<"", "src/a.ts">>,
              <<"src/a.ts", Undefined>>, <<"docs/r.md", Undefined>>,
              <<Undefined, "src/a.ts">>, <<Undefined, "docs/r.md">>,
              <<"src/a.ts", "docs/r.md">>, <<"docs/r.md", "src/a.ts">>}

ParamBags ==
    {Params(pp[1], pp[2], NoPatch) : pp \in PathPairs}
    \cup {Params(Undefined, Undefined, p) : p \in Patches}

GateTasks == {"t1"}

ExplicitIds == {Undefined, "INT-001", "INT-002"}

\* a caller hands a request to PreToolHook.run
GateSubmit ==
    /\ gate.pc = "idle"
    /\ \E toolName \in ToolNames, toolParams \in ParamBags, taskId \in GateTasks,
          activeIntentId \in ExplicitIds :
          gate' = [IdleGate EXCEPT !.pc = "pending",
                      !.context = Context(toolName, toolParams, taskId, activeIntentId)]
    /\ UNCHANGED <<file, intentsCache, activeIntentsByTask, traceLog, req, nreq, sm,
                   regCall, hist, nz, flight, chain>>

\* PreToolHook.run returns (or throws)
GateDecide ==
    /\ gate.pc = "pending"
    /\ \E writeOk \in WriteOutcomes(file) :
          \E d \in {PreToolHookRun(gate.context, file, intentsCache, activeIntentsByTask,
                                    writeOk)} :
             /\ gate' = [gate EXCEPT !.pc = "decided", !.result = d.result,
                            !.intent = d.intent]
             /\ file' = d.file
             /\ intentsCache' = d.cache
    /\ UNCHANGED <<activeIntentsByTask, traceLog, req, nreq, sm, regCall, hist, nz, flight, chain>>

\* the caller has read the result
GateReturn ==
    /\ gate.pc = "decided"
    /\ gate' = IdleGate
    /\ UNCHANGED <<file, intentsCache, activeIntentsByTask, traceLog, req, nreq, sm,
                   regCall, hist, nz, flight, chain>>

\* the registry is used and the resource edited between two calls of the gate
GateRegistryStep ==
    /\ gate.pc = "idle"
    /\ (Load \/ SetActiveIntent \/ ClearActiveIntent \/ InvalidateCache \/ ExternalEdit)

NextGate == GateSubmit \/ GateDecide \/ GateReturn \/ GateRegistryStep

SpecGate == Init /\ [][NextGate]_vars

\* ------------------------------------------- the audit called on its own
\* a caller hands TracePostHook.run the context of an operation that has run
AuditSubmit ==
    /\ \A t \in Tasks : req[t].pc = "idle"
    /\ \E toolName \in ToolNames, toolParams \in ParamBags, taskId \in GateTasks,
          activeIntentId \in ExplicitIds, fresh \in BOOLEAN :
          req' = [req EXCEPT ![taskId] =
                     [IdleRequest EXCEPT
                         !.pc = "executed", !.executed = TRUE, !.fresh = fresh,
                         !.context = Context(toolName, toolParams, taskId, activeIntentId)]]
    /\ UNCHANGED <<file, intentsCache, activeIntentsByTask, traceLog, nreq, gate, sm,
                   regCall, hist, nz, flight, chain>>

\* the registry is used and the resource edited before the audit is called
AuditRegistryStep ==
    /\ \A t \in Tasks : req[t].pc = "idle"
    /\ (Load \/ SetActiveIntent \/ ClearActiveIntent \/ InvalidateCache
           \/ ExternalEditTo(PipeFiles))

NextAudit ==
    \/ AuditSubmit
    \/ AuditRegistryStep
    \/ \E t \in GateTasks : PostStart(t)
    \/ \E t \in GateTasks : PostAppend(t)

SpecAudit == InitOver(PipeFiles) /\ [][NextAudit]_vars

\* ------------------------------------------- the HookEngine on its own
\* what a registered pre-hook may return for the request (or throw)
HookResults ==
    {Allowed, Threw,
     PreResult("denied", "NoActiveIntent", "write_to_file", NoIntent, ""),
     PreResult("denied", "NotAuthorizedToEdit", "",
               [id |-> "INT-001", ownedScope |-> <<"src/**">>, acceptanceCriteria |-> <<>>],
               "docs/r.md")}

HookLists == UNION {[1..n -> HookResults] : n \in 0..MaxHooks}

\* what a registered post-action may do for the request: return, or throw
ActionOutcomes == {"success", "threw"}

ActionLists == UNION {[1..n -> ActionOutcomes] : n \in 0..MaxHooks}

InitChain ==
    /\ RegistryInit({"doc1"})
    /\ traceLog = <<>>
    /\ req = [t \in Tasks |-> IdleRequest]
    /\ nreq = 0
    /\ gate = IdleGate
    /\ sm = IdleMatcher
    /\ regCall = IdleCall
    /\ hist = NoHistory
    /\ nz = IdleNormalizer
    /\ flight = IdleFlight
    /\ chain \in {[IdleChain EXCEPT !.pc = "running", !.kind = "pre", !.hooks = hs] :
                      hs \in HookLists}
               \cup {[IdleChain EXCEPT !.pc = "running", !.kind = "post", !.actions = as] :
                         as \in ActionLists}

\* a chain that goes on to the next hook whatever this one returned
ChainStops_Never(result) == FALSE

\* if (!result.allowed) return result; a hook that throws ends the chain too
ChainStops(result) == result.outcome # "allowed"

\* one round of the loop of executePreHooks (lines 27-32)
RunPreStep ==
    /\ chain.pc = "running" /\ chain.kind = "pre"
    /\ chain.next <= Len(chain.hooks)
    /\ chain' = IF ChainStops(chain.hooks[chain.next])
                THEN [chain EXCEPT !.invoked = Append(@, chain.next), !.pc = "done",
                                   !.result = chain.hooks[chain.next]]
                ELSE [chain EXCEPT !.invoked = Append(@, chain.next), !.next = @ + 1]
    /\ UNCHANGED <<file, intentsCache, activeIntentsByTask, traceLog, req, nreq, gate, sm,
                   regCall, hist, nz, flight>>

\* the loop of executePreHooks is over: return { allowed: true } (line 33)
RunPreEnd ==
    /\ chain.pc = "running" /\ chain.kind = "pre"
    /\ chain.next > Len(chain.hooks)
    /\ chain' = [chain EXCEPT !.pc = "done", !.result = Allowed]
    /\ UNCHANGED <<file, intentsCache, activeIntentsByTask, traceLog, req, nreq, gate, sm,
                   regCall, hist, nz, flight>>

\* a chain of post-actions that a failing one ends
PostFailureEnds_Always(outcome) == outcome = "threw"

\* runPost: a post-action that fails does not end the chain
PostFailureEnds(outcome) == FALSE

\* runPost invokes the next post-action and notes its failure
RunPostStep ==
    /\ chain.pc = "running" /\ chain.kind = "post"
    /\ chain.next <= Len(chain.actions)
    /\ chain' = [chain EXCEPT
                    !.invoked = Append(@, chain.next),
                    !.reported = IF chain.actions[chain.next] = "threw"
                                 THEN Append(@, chain.next) ELSE @,
                    !.next = @ + 1,
                    !.pc = IF PostFailureEnds(chain.actions[chain.next])
                           THEN "done" ELSE "running",
                    !.postResult = IF PostFailureEnds(chain.actions[chain.next])
                                   THEN "threw" ELSE ""]
    /\ UNCHANGED <<file, intentsCache, activeIntentsByTask, traceLog, req, nreq, gate, sm,
                   regCall, hist, nz, flight>>

\* runPost returns to its caller, with the failures it noted if there are any
RunPostEnd ==
    /\ chain.pc = "running" /\ chain.kind = "post"
    /\ chain.next > Len(chain.actions)
    /\ chain' = [chain EXCEPT !.pc = "done",
                              !.postResult = IF chain.reported = <<>> THEN "ok"
                                             ELSE "reported"]
    /\ UNCHANGED <<file, intentsCache, activeIntentsByTask, traceLog, req, nreq, gate, sm,
                   regCall, hist, nz, flight>>

NextChain == RunPreStep \/ RunPreEnd \/ RunPostStep \/ RunPostEnd

SpecChain == InitChain /\ [][NextChain]_vars

\* ------------------------- the gate across reloads of the definitions
\* the documents the resource is rewritten to between calls of the gate
ReloadFiles == {"doc1", "doc2", "doc3"}

\* the requests put to the gate between the reloads
ReloadCalls == {<<"write_to_file", Params("docs/r.md", Undefined, NoPatch), Undefined>>,
                <<"write_to_file", Params("src/a.ts", Undefined, NoPatch), Undefined>>,
                <<"write_to_file", Params("src/a.ts", Undefined, NoPatch), "INT-002">>,
                <<"edit", Params(Undefined, "docs/r.md", NoPatch), Undefined>>,
                <<"apply_patch", Params(Undefined, Undefined, PatchMoveOut), Undefined>>,
                <<"execute_command", NoParams, Undefined>>,
                <<"read_file", Params("docs/r.md", Undefined, NoPatch), Undefined>>}

\* a caller hands one of the requests to PreToolHook.run
ReloadSubmit ==
    /\ gate.pc = "idle"
    /\ \E c \in ReloadCalls, taskId \in GateTasks :
          gate' = [IdleGate EXCEPT !.pc = "pending",
                      !.context = Context(c[1], c[2], taskId, c[3])]
    /\ UNCHANGED <<file, intentsCache, activeIntentsByTask, traceLog, req, nreq, sm,
                   regCall, hist, nz, flight, chain>>

\* setActiveIntent(taskId, intentId) between two calls of the gate; regCall
\* keeps the call and the resource it was answered from
ReloadActivate ==
    /\ gate.pc = "idle"
    /\ \E taskId \in GateTasks, intentId \in IntentIds :
          \E r \in {SetActive(file, intentsCache, TRUE, activeIntentsByTask, taskId,
                               intentId)} :
             /\ file' = r.file
             /\ intentsCache' = r.cache
             /\ activeIntentsByTask' = r.bindings
             /\ regCall' = [IdleCall EXCEPT !.op = "setActiveIntent", !.taskId = taskId,
                                            !.intentId = intentId, !.threw = r.threw,
                                            !.error = r.error, !.fileAfter = r.file]
    /\ UNCHANGED <<traceLog, req, nreq, gate, sm, hist, nz, flight, chain>>

\* clearActiveIntent(taskId) between two calls of the gate
ReloadDeactivate ==
    /\ gate.pc = "idle"
    /\ \E taskId \in GateTasks :
          /\ activeIntentsByTask' = ClearActive(activeIntentsByTask, taskId)
          /\ regCall' = [IdleCall EXCEPT !.op = "clearActiveIntent", !.taskId = taskId]
    /\ UNCHANGED <<file, intentsCache, traceLog, req, nreq, gate, sm, hist, nz, flight,
                   chain>>

\* the resource is rewritten, or the cache invalidated, between two calls of the gate
ReloadStep ==
    /\ gate.pc = "idle"
    /\ (InvalidateCache \/ ExternalEditTo(ReloadFiles))

NextReload ==
    \/ ReloadSubmit
    \/ GateDecide
    \/ GateReturn
    \/ ReloadActivate
    \/ ReloadDeactivate
    \/ ReloadStep

SpecReload == InitOver(ReloadFiles) /\ [][NextReload]_vars

\* ------------------------------------------------- properties of the gate
\* The gate has returned for the request in `gate`.
Decided == gate.pc = "decided"

\* the file-mutating kinds: the mutation-capable kinds without execute_command
FileTools == {"write_to_file", "apply_diff", "edit", "search_and_replace", "edit_file",
              "search_replace", "apply_patch"}

MutationCapable == FileTools \cup {"execute_command"}

\* the paths the gate extracts for the request
GatePaths == ExtractPathsForScopeValidation(gate.context.toolName, gate.context.toolParams)

\* id names an intent of the loaded definitions
Resolvable(id) ==
    /\ Truthy(id)
    /\ intentsCache.loaded
    /\ \E i \in 1..Len(intentsCache.intents) : intentsCache.intents[i].id = id

\* neither the explicit id of the request nor the binding of its task resolves
NoneResolves ==
    /\ ~Resolvable(gate.context.activeIntentId)
    /\ ~Resolvable(activeIntentsByTask[gate.context.taskId])

\* the gate has an id to look up, and looking it up needs a load() that throws
LookupFails ==
    /\ Truthy(gate.context.activeIntentId) \/ Truthy(activeIntentsByTask[gate.context.taskId])
    /\ ~intentsCache.loaded
    /\ LoadIntents(file, intentsCache, TRUE).threw

InScope(path) == ValidatePath(path, gate.intent.ownedScope)

AllInScope == \A i \in 1..Len(GatePaths.paths) : InScope(GatePaths.paths[i])

\* C1 (as stated): a file-mutating operation is allowed only if at least one
\* target path was extracted and every extracted path matched the resolved
\* intent's owned scope.
C1_AllowedOnlyWithCheckedPath ==
    (Decided /\ gate.context.toolName \in FileTools /\ gate.result.outcome = "allowed")
    => /\ ~NoneResolves
       /\ GatePaths.paths # <<>>
       /\ AllInScope

\* C2: with an intent resolved and the paths extracted, a file-mutating
\* operation is allowed iff every extracted path is in the intent's owned
\* scope; otherwise it is denied with the scope-violation message, which names
\* the intent id, the full owned scope and the first out-of-scope path in
\* extraction order.
C2_AllowedIffAllInScope ==
    (Decided /\ gate.context.toolName \in FileTools /\ ~NoneResolves /\ ~GatePaths.threw)
    => /\ (gate.result.outcome = "allowed") <=> AllInScope
       /\ ~AllInScope =>
            /\ gate.result.outcome = "denied"
            /\ gate.result.msg = "NotAuthorizedToEdit"
            /\ gate.result.intentId = gate.intent.id
            /\ gate.result.scope = gate.intent.ownedScope
            /\ \E k \in 1..Len(GatePaths.paths) :
                  /\ GatePaths.paths[k] = gate.result.path
                  /\ ~InScope(GatePaths.paths[k])
                  /\ \A j \in 1..(k - 1) : InScope(GatePaths.paths[j])

C2_Witness ==
    /\ Decided
    /\ gate.context.toolName = "apply_patch"
    /\ gate.context.toolParams.patch = PatchInThenOut
    /\ gate.result.msg = "NotAuthorizedToEdit"
    /\ gate.result.intentId = "INT-001"
    /\ gate.result.path = "docs/r.md"
    /\ InScope("src/a.ts")

\* C3 (as stated): a mutation-capable operation for which neither id resolves
\* is denied with the NoActiveIntent message.
C3_UnresolvedIsDenied ==
    (Decided /\ gate.context.toolName \in MutationCapable /\ NoneResolves)
    => (gate.result.outcome = "denied" /\ gate.result.msg = "NoActiveIntent")

\* C3 (amended): a mutation-capable operation for which neither id resolves is
\* denied with the NoActiveIntent message, which names the tool, for every
\* mutating kind and every parameter bag, unless a lookup needs a load() that
\* fails to parse: then run() throws that error and returns no result.
C3_UnresolvedIsDeniedOrThrows ==
    (Decided /\ gate.context.toolName \in MutationCapable /\ NoneResolves)
    => IF LookupFails
       THEN gate.result.outcome = "threw"
       ELSE /\ gate.result.outcome = "denied"
            /\ gate.result.msg = "NoActiveIntent"
            /\ gate.result.toolName = gate.context.toolName

C3_Witness ==
    /\ Decided
    /\ gate.context.toolName = "apply_patch"
    /\ gate.context.toolParams.patch = PatchMoveIn
    /\ gate.context.activeIntentId = "INT-002"
    /\ activeIntentsByTask[gate.context.taskId] = "INT-002"
    /\ intentsCache.loaded
    /\ gate.result.msg = "NoActiveIntent"

\* C4 (as stated): execute_command is denied: with the command message when an
\* intent resolves, with NoActiveIntent when none does.
C4_CommandDenied ==
    (Decided /\ gate.context.toolName = "execute_command")
    => /\ gate.result.outcome = "denied"
       /\ gate.result.msg = IF NoneResolves THEN "NoActiveIntent" ELSE "CannotAuthorizeCommand"

\* C4 (amended): execute_command is never allowed, whatever the registry holds
\* and whatever the parameters are.  With an intent resolved it is denied with
\* the message that names execute_command and the intent, with no extraction
\* or scope check; with none resolved it is denied with NoActiveIntent, unless a
\* lookup needs a load() that fails to parse: then run() throws.
C4_CommandNeverAllowed ==
    (Decided /\ gate.context.toolName = "execute_command")
    => /\ gate.result.outcome # "allowed"
       /\ ~NoneResolves =>
            /\ gate.result.outcome = "denied"
            /\ gate.result.msg = "CannotAuthorizeCommand"
            /\ gate.result.toolName = "execute_command"
            /\ gate.result.intentId = gate.intent.id
       /\ NoneResolves =>
            IF LookupFails THEN gate.result.outcome = "threw"
            ELSE gate.result.outcome = "denied" /\ gate.result.msg = "NoActiveIntent"

C4_Witness ==
    /\ Decided
    /\ gate.context.toolName = "execute_command"
    /\ gate.context.toolParams.patch = PatchTruncated
    /\ gate.result.msg = "CannotAuthorizeCommand"
    /\ gate.result.intentId = "INT-001"

\* C5: a call of the gate for a kind outside the mutation-capable set returns
\* allowed and leaves the resource, the cache and the bindings as they were,
\* in every registry state.
C5_NonMutatingAlwaysAllowed ==
    [][(gate.pc = "pending" /\ gate'.pc = "decided"
        /\ gate.context.toolName \notin MutationCapable)
       => /\ gate'.result.outcome = "allowed"
          /\ gate'.result.msg = ""
          /\ file' = file
          /\ intentsCache' = intentsCache
          /\ activeIntentsByTask' = activeIntentsByTask]_vars

C5_Witness ==
    /\ Decided
    /\ gate.context.toolName = "read_file"
    /\ gate.result.outcome = "allowed"
    /\ file = "bad"
    /\ ~intentsCache.loaded
    /\ activeIntentsByTask[gate.context.taskId] = "INT-001"
    /\ gate.context.activeIntentId = "INT-002"

\* the update hunks of the request's patch that carry a move destination
MoveHunks ==
    {h \in Range(ParsePatch(gate.context.toolParams.patch).hunks) :
        h.type = "UpdateFile" /\ Truthy(h.movePath)}

ApplyPatchChecked ==
    /\ Decided
    /\ gate.context.toolName = "apply_patch"
    /\ ~NoneResolves
    /\ ParsePatch(gate.context.toolParams.patch).ok

\* C6 (as stated): every move hunk has its source and its destination among
\* the checked paths, and when the source is in scope and the destination is
\* not, the denial names the destination.
C6_MoveDenialNamesDestination ==
    ApplyPatchChecked =>
       \A h \in MoveHunks :
          /\ \E k \in 1..(Len(GatePaths.paths) - 1) :
                GatePaths.paths[k] = h.path /\ GatePaths.paths[k + 1] = h.movePath
          /\ (InScope(h.path) /\ ~InScope(h.movePath)) =>
                /\ gate.result.msg = "NotAuthorizedToEdit"
                /\ gate.result.path = h.movePath

\* C6 (amended): with an intent resolved, every move hunk of an apply_patch has
\* its source and, right after it, its destination among the checked paths;
\* when the source is in scope and the destination is not, the operation is
\* denied with the scope-violation message, and the message names the
\* destination when every path extracted before it is in scope (otherwise it
\* names the earlier out-of-scope path).
C6_MoveDestinationChecked ==
    ApplyPatchChecked =>
       \A h \in MoveHunks :
          \E k \in 1..(Len(GatePaths.paths) - 1) :
             /\ GatePaths.paths[k] = h.path
             /\ GatePaths.paths[k + 1] = h.movePath
             /\ (InScope(h.path) /\ ~InScope(h.movePath)) =>
                   /\ gate.result.outcome = "denied"
                   /\ gate.result.msg = "NotAuthorizedToEdit"
                   /\ (\A j \in 1..k : InScope(GatePaths.paths[j]))
                         => gate.result.path = h.movePath

C6_Witness ==
    /\ Decided
    /\ gate.context.toolName = "apply_patch"
    /\ gate.context.toolParams.patch = PatchMoveOut
    /\ InScope("src/a.ts")
    /\ gate.result.msg = "NotAuthorizedToEdit"
    /\ gate.result.path = "docs/r.md"

\* C7: when the extraction of the target paths fails for a file-mutating
\* operation (an intent being resolved, so that extraction is attempted), the
\* gate returns a denial with the invalid-payload message naming the tool; it
\* neither allows nor throws.
C7_ExtractionFailureDenied ==
    (Decided /\ gate.context.toolName \in FileTools /\ ~NoneResolves /\ GatePaths.threw)
    => /\ gate.result.outcome = "denied"
       /\ gate.result.msg = "InvalidPayload"
       /\ gate.result.toolName = gate.context.toolName

C7_Witness ==
    /\ Decided
    /\ gate.context.toolName = "apply_patch"
    /\ gate.context.toolParams.patch = PatchStrayMove
    /\ ~NoneResolves
    /\ gate.result.msg = "InvalidPayload"

\* ------------------------------------------------------------------- C8
\* the paths the gate had to check for the request of task t
RequestPaths(t) ==
    ExtractPathsForScopeValidation(req[t].context.toolName, req[t].context.toolParams)

\* the handler of t's request ran although the gate was never satisfied with it
RanUnchecked(t) ==
    /\ req[t].executed
    /\ \/ req[t].pre.outcome # "allowed"
       \/ req[t].hook.outcome # "allowed"
       \/ /\ IsDestructive(req[t].context.toolName)
          /\ \/ req[t].intent.id = Undefined
             \/ RequestPaths(t).threw
             \/ \E i \in 1..Len(RequestPaths(t).paths) :
                   ~ValidatePath(RequestPaths(t).paths[i], req[t].intent.ownedScope)

\* a request the pre-hooks did not allow went further than its end
DeniedWentOn(t) ==
    /\ req[t].pc # "idle"
    /\ req[t].pre.outcome # "allowed"
    /\ \/ req[t].pc # "done"
       \/ req[t].executed
       \/ req[t].appended # 0
       \/ req[t].post # ""

\* the step appends to the trace log on behalf of a request that ran after
\* the pre-hooks allowed it
AppendsForAllowed ==
    \E t \in Tasks :
        /\ req[t].pc = "auditing"
        /\ req[t].executed
        /\ req[t].pre.outcome = "allowed"
        /\ req'[t].appended = req[t].appended + 1
        /\ Len(traceLog') = Len(traceLog) + 1

\* C8 -- All denials are terminal: the handler of a request runs only after the
\* pre-execution chain returned allowed for that request, the chain having
\* judged the request's own tool name, task and parameters (every path of the
\* parameters is in the scope of the intent resolved for it); a request that is
\* not allowed ends at once, with no execution and no trace-log entry, and the
\* trace log only ever grows on behalf of an allowed request that executed.
C8_DenialsAreTerminal ==
    /\ [](\A t \in Tasks : ~RanUnchecked(t) /\ ~DeniedWentOn(t))
    /\ [][traceLog' # traceLog => AppendsForAllowed]_vars

\* a write outside the scope of the bound intent was denied and ended there
C8_Witness ==
    \E t \in Tasks :
        /\ req[t].pc = "done"
        /\ req[t].context.toolName = "write_to_file"
        /\ req[t].hook.outcome = "denied"
        /\ req[t].hook.msg = "NotAuthorizedToEdit"
        /\ req[t].pre = req[t].hook
        /\ ~req[t].executed
        /\ traceLog = <<>>

\* ------------------------------------------------------------------- C9
\* the trace log holds an entry for the path, the intent and the tool
Audited(path, intentId, toolName) ==
    \E j \in 1..Len(traceLog) :
        /\ traceLog[j].filePath = path
        /\ traceLog[j].intentId = intentId
        /\ traceLog[j].toolName = toolName

\* t's request was a mutation the gate allowed, it executed, and the audit of
\* it returned without failure
AuditedRequest(t) ==
    /\ req[t].pc = "done"
    /\ req[t].executed
    /\ req[t].hook.outcome = "allowed"
    /\ IsDestructive(req[t].context.toolName)
    /\ req[t].post = "success"

\* C9 -- Every mutation-capable operation that the gate allowed and that then
\* executed has, once its audit returned, one trace entry per affected path,
\* each attributed to the intent that was active for the operation when the
\* gate checked it, whatever activate/deactivate/invalidate or other requests
\* happened between the check and the audit.
C9_AllowedExecutedIsAudited ==
    \A t \in Tasks :
        AuditedRequest(t) =>
            \A i \in 1..Len(RequestPaths(t).paths) :
                Audited(RequestPaths(t).paths[i], req[t].intent.id,
                        req[t].context.toolName)

\* ------------------------------------------------------------------ C10
SomeInclusionMatches(path, pats) ==
    \E i \in 1..Len(pats) : ~IsExclusion(pats[i]) /\ PatternMatches(pats[i], path)

SomeExclusionMatches(path, pats) ==
    \E i \in 1..Len(pats) : IsExclusion(pats[i]) /\ PatternMatches(pats[i], path)

\* every reordering of a pattern list
Reorderings(pats) ==
    {[i \in 1..Len(pats) |-> pats[f[i]]] : f \in Permutations(1..Len(pats))}

\* C10 -- ScopeMatcher: a path is in scope iff at least one non-exclusionary
\* pattern of the list matches it and no "!"-prefixed pattern matches it; the
\* decision is the same for every order of the patterns; with an empty list,
\* or a list of exclusions only, every path is out of scope.
C10_ScopeDecision ==
    sm.pc = "done" =>
        /\ sm.result <=> (/\ SomeInclusionMatches(sm.path, sm.patterns)
                          /\ ~SomeExclusionMatches(sm.path, sm.patterns))
        /\ \A q \in Reorderings(sm.patterns) : ValidatePath(sm.path, q) = sm.result
        /\ (\A i \in 1..Len(sm.patterns) : IsExclusion(sm.patterns[i])) => ~sm.result

\* an exclusion listed before the inclusion that also matches still vetoes
C10_Witness ==
    /\ sm.pc = "done"
    /\ sm.path = "src/legacy/b.ts"
    /\ sm.patterns = <<"!src/legacy/**", "src/**">>
    /\ ~sm.result

\* ------------------------------------------------------------------ C11
\* what loadIntents gave the last call, and whether its id was among the intents
LoadOfCall == LoadIntents(regCall.fileBefore, regCall.cacheBefore, regCall.writeOk)

IdResolvedInCall == ~LoadOfCall.threw /\ FindIntent(LoadOfCall.val, regCall.intentId).found

\* the last call was setActiveIntent with an id that resolved to no loaded intent
ActivatedUnknown == regCall.op = "setActiveIntent" /\ ~IdResolvedInCall

\* C11 (as stated) -- activate(taskId, intentId) with an intentId that does not
\* resolve to a loaded intent fails with the 'Intent <id> not found' error and
\* leaves every binding as it was.
C11_UnknownIntentNotFound ==
    ActivatedUnknown =>
        /\ regCall.threw
        /\ regCall.error = IntentNotFound(regCall.intentId)
        /\ activeIntentsByTask = regCall.bindingsBefore

\* C11 (amended) -- activate(taskId, intentId) with an intentId that does not
\* resolve to a loaded intent always fails and leaves every binding as it was,
\* the prior binding of the task included: with 'Intent <id> not found' when
\* the definitions load and the id is not among them, and with the error of
\* the load ('Failed to parse active_intents.yaml: ...') when they do not load.
C11_UnknownIntentFails ==
    ActivatedUnknown =>
        /\ regCall.threw
        /\ activeIntentsByTask = regCall.bindingsBefore
        /\ regCall.error = IF LoadOfCall.threw
                           THEN FailedToParse(ParserText(regCall.fileBefore))
                           ELSE IntentNotFound(regCall.intentId)

\* a task bound to INT-001 asked for INT-002, which the definitions no longer
\* hold: the call failed and the task is still bound to INT-001
C11_Witness ==
    /\ regCall.op = "setActiveIntent"
    /\ regCall.taskId = "t1"
    /\ regCall.intentId = "INT-002"
    /\ regCall.bindingsBefore["t1"] = "INT-001"
    /\ regCall.error = IntentNotFound("INT-002")
    /\ activeIntentsByTask["t1"] = "INT-001"

\* ------------------------------------------------------------------ C12
\* the last call was getActiveIntent for a task whose binding a successful
\* setActiveIntent made, with no clearActiveIntent or later setActiveIntent for
\* the task and no invalidateCache since
AskedAfterActivate ==
    /\ regCall.op = "getActiveIntent"
    /\ regCall.taskId \in hist.fresh

\* C12 -- After activate(taskId, intentId) returned successfully the task has
\* one binding, to intentId, and getActive(taskId) returns the intent whose id
\* is intentId, as long as no deactivate, later activate for the task or
\* invalidate intervenes.
C12_ActivatedIsReturned ==
    AskedAfterActivate =>
        /\ regCall.bindingsBefore[regCall.taskId] = regCall.intentId
        /\ ~regCall.threw
        /\ regCall.found
        /\ regCall.intent.id = regCall.intentId

\* ------------------------------------------------------------------ C13
AskedActive == regCall.op = "getActiveIntent"

\* the task of the last call had a binding (one that getActiveIntent takes as such)
HadBinding == Truthy(regCall.intentId)

\* C13 (as stated) -- getActive(taskId) never raises: it returns absent when
\* the task has no binding or the bound id does not resolve in the definitions,
\* and an intent it returns has the bound id.
C13_AbsentNeverRaises ==
    AskedActive =>
        /\ ~regCall.threw
        /\ regCall.found => regCall.intent.id = regCall.intentId
        /\ (~HadBinding \/ ~IdResolvedInCall) => ~regCall.found

\* C13 (amended) -- getActive(taskId) returns absent, without raising and
\* without loading, when the task has no binding; it returns absent without
\* raising when the definitions load and the bound id is not among them; it
\* raises only the error of a load that found the cache empty and the resource
\* unparsable; an intent it returns always has the bound id.
C13_AbsentOrLoadError ==
    AskedActive =>
        /\ regCall.found => (~regCall.threw /\ regCall.intent.id = regCall.intentId)
        /\ ~HadBinding =>
              /\ ~regCall.threw /\ ~regCall.found /\ ~regCall.read /\ ~regCall.wrote
              /\ intentsCache = regCall.cacheBefore
        /\ (HadBinding /\ ~LoadOfCall.threw /\ ~IdResolvedInCall) =>
              (~regCall.threw /\ ~regCall.found)
        /\ regCall.threw =>
              /\ HadBinding
              /\ ~regCall.cacheBefore.loaded
              /\ LoadOfCall.threw
              /\ regCall.error = FailedToParse(ParserText(regCall.fileBefore))
        /\ activeIntentsByTask = regCall.bindingsBefore

\* the task is bound to INT-002, the definitions were read again and no longer
\* hold it: absent, no error
C13_Witness ==
    /\ AskedActive
    /\ regCall.taskId = "t1"
    /\ regCall.intentId = "INT-002"
    /\ regCall.read
    /\ ~regCall.threw
    /\ ~regCall.found
    /\ activeIntentsByTask["t1"] = "INT-002"

\* ------------------------------------------------------------------ C14
Deactivated == regCall.op = "clearActiveIntent"

\* C14 -- deactivate(taskId) never fails and removes the binding of that task;
\* the bindings of every other task and the intent cache are as before; and it
\* is idempotent: on a task with no binding, or called again, it leaves the
\* same state.
C14_DeactivateIdempotent ==
    Deactivated =>
        /\ ~regCall.threw
        /\ activeIntentsByTask[regCall.taskId] = Undefined
        /\ \A t \in Tasks \ {regCall.taskId} :
              activeIntentsByTask[t] = regCall.bindingsBefore[t]
        /\ intentsCache = regCall.cacheBefore
        /\ ClearActive(activeIntentsByTask, regCall.taskId) = activeIntentsByTask
        /\ regCall.bindingsBefore[regCall.taskId] = Undefined =>
              activeIntentsByTask = regCall.bindingsBefore

\* t1 was deactivated while t2 was bound: t2 is still bound, the cache still loaded
C14_Witness ==
    /\ Deactivated
    /\ regCall.taskId = "t1"
    /\ regCall.bindingsBefore["t1"] = "INT-001"
    /\ regCall.bindingsBefore["t2"] = "INT-002"
    /\ activeIntentsByTask = [t1 |-> Undefined, t2 |-> "INT-002"]
    /\ intentsCache.loaded

\* ------------------------------------------------------------------ C15
Invalidated == regCall.op = "invalidateCache"

\* C15 -- invalidate() clears only the intent cache: the binding of every task
\* is the same after the call as before it.
C15_InvalidateKeepsBindings ==
    Invalidated =>
        /\ ~regCall.threw
        /\ intentsCache = NullCache
        /\ \A t \in Tasks : activeIntentsByTask[t] = regCall.bindingsBefore[t]

\* the cache was loaded and a task bound when invalidate() was called
C15_Witness ==
    /\ Invalidated
    /\ regCall.cacheBefore.loaded
    /\ regCall.bindingsBefore["t1"] = "INT-001"
    /\ activeIntentsByTask["t1"] = "INT-001"
    /\ intentsCache = NullCache

\* ------------------------------------------------------------------ C16
Loaded == regCall.op = "loadIntents"

\* C16 (as stated) -- consecutive load() calls with no invalidate() between
\* them return the identical sequence and read the resource only once: a load
\* that follows another one since the last invalidate() reads nothing and
\* returns what the earlier one returned.
C16_LoadsReadOnce ==
    (Loaded /\ regCall.histBefore.loadCalled) =>
        /\ ~regCall.read
        /\ ~regCall.threw
        /\ regCall.val = regCall.histBefore.loadVal

\* C16 (amended) -- once a load() has returned, every later load() with no
\* invalidate() in between returns the identical sequence without reading,
\* parsing or writing the resource, even if the resource changed since; a
\* load() that failed populated nothing, so the load after it reads the
\* resource again, as does the first load after an invalidate().
C16_LoadsAfterSuccessReadNothing ==
    Loaded =>
        /\ regCall.histBefore.loadOk =>
              /\ ~regCall.read /\ ~regCall.wrote /\ ~regCall.threw
              /\ regCall.val = regCall.histBefore.loadVal
              /\ intentsCache = regCall.cacheBefore
        /\ ~regCall.threw => intentsCache = Cached(regCall.val)
        /\ (~regCall.cacheBefore.loaded /\ regCall.fileBefore # "missing") => regCall.read

\* the resource was rewritten after the first load: the second load still
\* returns the two intents read the first time, and reads nothing
C16_Witness ==
    /\ Loaded
    /\ regCall.histBefore.loadOk
    /\ regCall.fileBefore = "doc2"
    /\ Len(regCall.val) = 2
    /\ regCall.val = regCall.histBefore.loadVal
    /\ ~regCall.read

\* ------------------------------------------------------------------ C17
\* the last call was a load() that went to a resource that exists and that
\* yaml.parse rejects
LoadedUnparsable ==
    /\ Loaded
    /\ ~regCall.cacheBefore.loaded
    /\ regCall.fileBefore = "bad"

\* C17 -- When load() goes to a definition resource that exists but does not
\* parse, it fails with the parse error ('Failed to parse active_intents.yaml:'
\* followed by the parser's failure text), the cache stays unpopulated, so the
\* next load reads the resource again, and the bindings are unchanged.
C17_ParseFailureSurfaces ==
    LoadedUnparsable =>
        /\ regCall.threw
        /\ regCall.read
        /\ regCall.error = FailedToParse("YAMLParseError")
        /\ intentsCache = NullCache
        /\ activeIntentsByTask = regCall.bindingsBefore
        /\ regCall.fileAfter = "bad"

\* load() failed on the unparsable resource while a task was bound
C17_Witness ==
    /\ LoadedUnparsable
    /\ regCall.threw
    /\ regCall.bindingsBefore["t1"] = "INT-001"
    /\ activeIntentsByTask["t1"] = "INT-001"
    /\ ~intentsCache.loaded

\* ------------------------------------------------------------------ C18
\* the last call was a load() that went to a resource holding a document that
\* yaml.parse accepts
LoadedDocument ==
    /\ Loaded
    /\ ~regCall.cacheBefore.loaded
    /\ regCall.fileBefore \in DocNames

\* the raw entries of the document the last call read
EntriesOfCall == RawIntents(ParsedYaml(regCall.fileBefore)).items

\* C18 -- Each raw entry is normalized on its own: when the document parses, a
\* malformed entry (a null among them) never makes load() fail, load() returns
\* one intent per entry, and every entry that is a mapping is returned normalized.
C18_MalformedEntryTolerated ==
    LoadedDocument =>
        /\ ~regCall.threw
        /\ Len(regCall.val) = Len(EntriesOfCall)
        /\ \A i \in 1..Len(EntriesOfCall) :
              ~EntriesOfCall[i].isNull => regCall.val[i] = NormalizeIntent(EntriesOfCall[i])

\* ------------------------------------------------------------------ C19
\* the last call was a load() that found the cache empty and no resource
LoadedMissing ==
    /\ Loaded
    /\ ~regCall.cacheBefore.loaded
    /\ regCall.fileBefore = "missing"

\* C19 -- When the definition resource does not exist, load() attempts to write
\* a default document whose "intents" key holds an empty sequence, reads
\* nothing, returns the empty sequence and leaves the cache populated with it;
\* when the write fails the resource stays absent and load() still returns
\* normally.
C19_MissingResourceDefaults ==
    LoadedMissing =>
        /\ ~regCall.threw
        /\ regCall.error = NoError
        /\ regCall.wrote
        /\ ~regCall.read
        /\ regCall.val = <<>>
        /\ intentsCache = Cached(<<>>)
        /\ regCall.fileAfter = (IF regCall.writeOk THEN "default" ELSE "missing")
        /\ ParsedYaml("default").intents = Arr(<<>>)
        /\ activeIntentsByTask = regCall.bindingsBefore

\* a load() whose write of the default document failed
C19_Witness ==
    /\ LoadedMissing
    /\ ~regCall.writeOk
    /\ regCall.wrote
    /\ ~regCall.threw
    /\ file = "missing"
    /\ intentsCache = Cached(<<>>)

\* ------------------------------------------------------------------ C20
\* both documents have been normalized
NormalizedBoth == nz.pc = "done"

\* a normalized sequence of strings: every item trimmed and non-empty
TrimmedNonEmpty(items) ==
    \A j \in 1..Len(items) : items[j] # "" /\ Trim(items[j]) = items[j]

\* C20 -- A document written with the root key active_intents and the field
\* names owned_scope / acceptance_criteria normalizes to the same intents as the
\* same entries written under intents with ownedScope / acceptanceCriteria: one
\* intent per entry in the entries' order, with the same id and the same
\* trimmed, non-empty ownedScope and acceptanceCriteria sequences.
C20_AliasesNormalizeAlike ==
    NormalizedBoth =>
        /\ Len(nz.snake) = Len(nz.entries)
        /\ Len(nz.camel) = Len(nz.entries)
        /\ \A i \in 1..Len(nz.entries) :
              /\ nz.snake[i].id = nz.camel[i].id
              /\ nz.snake[i].id = OrElse(nz.entries[i].id, "")
              /\ nz.snake[i].ownedScope = nz.camel[i].ownedScope
              /\ nz.snake[i].acceptanceCriteria = nz.camel[i].acceptanceCriteria
              /\ TrimmedNonEmpty(nz.snake[i].ownedScope)
              /\ TrimmedNonEmpty(nz.snake[i].acceptanceCriteria)
              /\ nz.entries[i].scope.kind # "array" => nz.snake[i].ownedScope = <<>>

\* two entries whose sequences hold blank and untrimmed items, normalized from
\* both documents
C20_Witness ==
    /\ NormalizedBoth
    /\ Len(nz.entries) = 2
    /\ nz.entries[1].id = "INT-002" /\ nz.entries[2].id = "INT-001"
    /\ nz.entries[1].scope = Arr(<<" !src/legacy/** ", "  ", "src/**">>)
    /\ nz.entries[1].criteria = Arr(<<"  ", " tests pass ">>)
    /\ nz.snake[1].id = "INT-002" /\ nz.snake[2].id = "INT-001"
    /\ nz.snake[1].ownedScope = <<"!src/legacy/**", "src/**">>
    /\ nz.camel[1].ownedScope = <<"!src/legacy/**", "src/**">>
    /\ nz.snake[1].acceptanceCriteria = <<"tests pass">>
    /\ nz.camel[1].acceptanceCriteria = <<"tests pass">>

\* ------------------------------------------------------------------ C21
\* the log after the step begins with the whole log before it
LogExtended ==
    /\ Len(traceLog') >= Len(traceLog)
    /\ SubSeq(traceLog', 1, Len(traceLog)) = traceLog

\* C21 -- The trace log is append-only: every step of the gate, the audit, the
\* registry and the store leaves the log of the state before it as a prefix
\* of the log after it, so the log of every earlier state is a prefix of the
\* log of every later one; no entry is rewritten, reordered or removed.
C21_TraceLogAppendOnly == [][LogExtended]_vars

\* a second entry was appended behind the first, which is still in place
C21_Witness ==
    /\ Len(traceLog) = 2
    /\ traceLog[1].filePath = "src/a.ts"
    /\ traceLog[2].filePath = "src/c.ts"
    /\ \E t \in Tasks : req[t].pc = "done" /\ req[t].appended = 2

\* ------------------------------------------------------------------ C22
\* the request TracePostHook.run was called with, and whether run() is over
Op == req["t1"]

AuditDone == Op.pc = "done"

\* neither the explicit id of the audited request nor the binding of its task
\* names an intent of the loaded definitions
AuditNoneResolves ==
    /\ ~Resolvable(Op.context.activeIntentId)
    /\ ~Resolvable(activeIntentsByTask[Op.context.taskId])

\* the audit has an id to look up, and looking it up needs a load() that throws
AuditLookupFails ==
    /\ Truthy(Op.context.activeIntentId) \/ Truthy(activeIntentsByTask[Op.context.taskId])
    /\ ~intentsCache.loaded
    /\ LoadIntents(file, intentsCache, TRUE).threw

\* the cases in which the audit is to skip the operation
AuditSkips ==
    /\ AuditDone
    /\ \/ Op.context.toolName \notin MutationCapable
       \/ Op.context.toolName = "execute_command"
       \/ AuditNoneResolves

\* C22 (as stated) -- AuditLogger appends nothing and returns success without a
\* trace entry when the kind is not mutation-capable, when it is
\* execute_command, or when no intent resolves for the request.
C22_SkippedReturnsSuccess ==
    AuditSkips =>
        /\ traceLog = <<>>
        /\ Op.appended = 0
        /\ Op.post = "success"

\* C22 (amended) -- In those three cases AuditLogger appends nothing; it
\* returns success without a trace entry, unless the kind is mutation-capable
\* and the lookup of the intent needs a load() that fails to parse: run() then
\* rejects with the load error, and in no other case.
C22_SkippedAppendsNothing ==
    AuditSkips =>
        /\ traceLog = <<>>
        /\ Op.appended = 0
        /\ Op.post \in {"success", "threw"}
        /\ Op.post = "threw" <=>
              (Op.context.toolName \in MutationCapable /\ AuditLookupFails)

\* execute_command audited for a task whose bound intent resolves
C22_Witness ==
    /\ AuditDone
    /\ Op.context.toolName = "execute_command"
    /\ Op.context.toolParams.path = "src/a.ts"
    /\ activeIntentsByTask["t1"] = "INT-001"
    /\ Resolvable("INT-001")
    /\ Op.post = "success"
    /\ traceLog = <<>>

\* ------------------------------------------------------------------ C23
\* the hooks were invoked one after the other from the first registered on
InvokedInOrder == \A i \in 1..Len(chain.invoked) : chain.invoked[i] = i

SomeHookRefuses == \E i \in 1..Len(chain.hooks) : chain.hooks[i].outcome # "allowed"

\* the first registered pre-hook that does not return allowed
FirstRefusal ==
    CHOOSE i \in 1..Len(chain.hooks) :
        /\ chain.hooks[i].outcome # "allowed"
        /\ \A j \in 1..(i - 1) : chain.hooks[j].outcome = "allowed"

PreChainDone == chain.kind = "pre" /\ chain.pc = "done"

\* C23 -- runPre invokes the registered pre-checks in registration order and
\* stops at the first one that does not return allowed: that result is what it
\* returns and no later pre-check is invoked; it returns allowed only when every
\* registered pre-check allowed, also when none is registered.
C23_PreChainShortCircuits ==
    /\ chain.kind = "pre" => InvokedInOrder
    /\ PreChainDone =>
          IF SomeHookRefuses
          THEN /\ chain.result = chain.hooks[FirstRefusal]
               /\ Len(chain.invoked) = FirstRefusal
          ELSE /\ chain.result = Allowed
               /\ Len(chain.invoked) = Len(chain.hooks)

\* the second of three pre-checks denied and the third was not invoked
C23_Witness ==
    /\ PreChainDone
    /\ Len(chain.hooks) = 3
    /\ chain.hooks[1] = Allowed
    /\ chain.hooks[2].msg = "NotAuthorizedToEdit"
    /\ chain.hooks[3].msg = "NoActiveIntent"
    /\ chain.invoked = <<1, 2>>
    /\ chain.result = chain.hooks[2]

\* ------------------------------------------------------------------ C24
PostChainDone == chain.kind = "post" /\ chain.pc = "done"

\* C24 -- runPost invokes every registered post-action in registration order; a
\* post-action that fails does not keep the later ones from running, is
\* reported to the caller of runPost, and is not thrown past the HookEngine.
C24_PostChainRunsAll ==
    /\ chain.kind = "post" => InvokedInOrder
    /\ PostChainDone =>
          /\ Len(chain.invoked) = Len(chain.actions)
          /\ chain.postResult \in {"ok", "reported"}
          /\ chain.postResult = "reported" <=>
                \E i \in 1..Len(chain.actions) : chain.actions[i] = "threw"
          /\ \A i \in 1..Len(chain.actions) :
                chain.actions[i] = "threw" <=>
                    \E k \in 1..Len(chain.reported) : chain.reported[k] = i

\* the first of three post-actions failed, the others ran, the failure was reported
C24_Witness ==
    /\ PostChainDone
    /\ chain.actions = <<"threw", "success", "success">>
    /\ chain.invoked = <<1, 2, 3>>
    /\ chain.reported = <<1>>
    /\ chain.postResult = "reported"

\* ------------------------------------------------------------------ C25
\* every call made so far is settled
AllSettled == \A i \in 1..Len(flight.calls) : flight.calls[i].pc = "done"

\* the definitions hold an intent of that id
Defined(id) ==
    /\ ~LoadIntents(file, NullCache, TRUE).threw
    /\ \E k \in 1..Len(LoadIntents(file, NullCache, TRUE).val) :
          LoadIntents(file, NullCache, TRUE).val[k].id = id

\* the binding of the task after the call, run alone on binding b
AfterCall(b, call) ==
    IF call.op = "clearActiveIntent" THEN Undefined
    ELSE IF Defined(call.intentId) THEN call.intentId
    ELSE b

\* the binding after the calls run one at a time in the order given
RECURSIVE AfterCalls(_, _, _)
AfterCalls(b, order, k) ==
    IF k > Len(order) THEN b
    ELSE AfterCalls(AfterCall(b, flight.calls[order[k]]), order, k + 1)

\* the orders in which the calls made so far can run one at a time
Orders ==
    {o \in [1..Len(flight.calls) -> 1..Len(flight.calls)] :
        \A a, b \in 1..Len(flight.calls) : a # b => o[a] # o[b]}

\* C25 -- Binding mutation is atomic per task: however concurrent activate and
\* deactivate calls on one task interleave (each activate suspended while it
\* loads the definitions), once all of them are settled the binding of the task
\* is the one some sequential order of those calls produces, and a call only
\* ever binds an id that is among the definitions that same call loaded.
C25_BindingLinearizable ==
    /\ AllSettled => \E o \in Orders : activeIntentsByTask["t1"] = AfterCalls(Undefined, o, 1)
    /\ \A i \in 1..Len(flight.calls) :
          flight.calls[i].bound =>
              \E k \in 1..Len(flight.calls[i].intents) :
                  flight.calls[i].intents[k].id = flight.calls[i].intentId
    /\ activeIntentsByTask["t1"] # Undefined =>
          \E i \in 1..Len(flight.calls) :
              /\ flight.calls[i].bound
              /\ flight.calls[i].intentId = activeIntentsByTask["t1"]

\* an activate that was suspended across a deactivate and another activate
\* bound its id last
C25_Witness ==
    /\ AllSettled
    /\ Len(flight.calls) = 3
    /\ flight.calls[1].op = "setActiveIntent" /\ flight.calls[1].intentId = "INT-001"
    /\ flight.calls[2].op = "setActiveIntent" /\ flight.calls[2].intentId = "INT-002"
    /\ flight.calls[3].op = "clearActiveIntent"
    /\ flight.calls[1].bound /\ flight.calls[2].bound
    /\ activeIntentsByTask["t1"] = "INT-001"

\* ------------------------------------------------------------------ C26
\* the id the audit is to attribute the operation to: the explicit id of the
\* request when it names a loaded intent, else the id bound to its task
AttributedId ==
    IF Resolvable(Op.context.activeIntentId) THEN Op.context.activeIntentId
    ELSE activeIntentsByTask[Op.context.taskId]

\* the i-th entry of the log is the one for the i-th target of the operation
EntryForTarget(i) ==
    /\ traceLog[i].filePath = Op.targets[i].path
    /\ traceLog[i].intentId = Op.auditIntent.id
    /\ traceLog[i].intentId = AttributedId
    /\ traceLog[i].toolName = Op.context.toolName
    /\ traceLog[i].contentHash = "" <=> ~Op.reads[i]

\* run() returned success for an operation that has targets and an intent
Audit_Returned == AuditDone /\ Op.post = "success" /\ Op.targets # <<>>

\* C26 -- For one audited operation with targets t1..tn in extraction order,
\* the entries appended to the trace log are entries for t1, t2, ... in that
\* order, the i-th carrying filePath ti, the id of the resolved intent and the
\* toolName of the operation; once run() has returned there are exactly n of
\* them; a target whose file cannot be read still has its entry, with
\* contentHash "".
C26_EntriesInExtractionOrder ==
    /\ Len(traceLog) = Op.appended
    /\ Len(traceLog) <= Len(Op.targets)
    /\ \A i \in 1..Len(traceLog) : EntryForTarget(i)
    /\ Audit_Returned => Len(traceLog) = Len(Op.targets)

\* three targets, the second unreadable, audited under the explicit intent
C26_Witness ==
    /\ Audit_Returned
    /\ Op.context.toolParams.patch = PatchOutThenMoveOut
    /\ Op.context.activeIntentId = "INT-002"
    /\ activeIntentsByTask["t1"] = "INT-001"
    /\ Len(traceLog) = 3
    /\ traceLog[1].filePath = "README.md" /\ traceLog[1].contentHash # ""
    /\ traceLog[2].filePath = "src/a.ts" /\ traceLog[2].contentHash = ""
    /\ traceLog[3].filePath = "docs/r.md"
    /\ traceLog[3].intentId = "INT-002"

\* ------------------------------------------------------------------ C27
\* the first loaded intent of that id
IntentOf(id) ==
    intentsCache.intents[CHOOSE k \in 1..Len(intentsCache.intents) :
                            /\ intentsCache.intents[k].id = id
                            /\ \A j \in 1..(k - 1) : intentsCache.intents[j].id # id]

\* the intent the gate is to judge the request under
PreferredIntent ==
    IF Resolvable(gate.context.activeIntentId) THEN IntentOf(gate.context.activeIntentId)
    ELSE IF Resolvable(activeIntentsByTask[gate.context.taskId])
    THEN IntentOf(activeIntentsByTask[gate.context.taskId])
    ELSE NoIntent

\* the gate gave its result for a mutation-capable request
GateJudged ==
    /\ Decided
    /\ gate.context.toolName \in MutationCapable
    /\ gate.result.outcome # "threw"

\* C27 -- PolicyGate prefers the explicitly supplied intent id: when it
\* resolves, that intent is the one the request is judged under and its scope
\* the one the paths are checked against, also when the task is bound to
\* another intent; the task's bound intent is used only when no explicit id is
\* given or it does not resolve.
C27_ExplicitIdPreferred ==
    GateJudged =>
        /\ gate.intent = PreferredIntent
        /\ (gate.context.toolName \in FileTools /\ ~GatePaths.threw
              /\ PreferredIntent # NoIntent) =>
              (gate.result.outcome = "allowed" <=>
                  \A i \in 1..Len(GatePaths.paths) :
                      ValidatePath(GatePaths.paths[i], PreferredIntent.ownedScope))

\* a write allowed by the scope of the explicit intent that the intent bound
\* to the task would have denied
C27_Witness ==
    /\ GateJudged
    /\ gate.context.toolName = "write_to_file"
    /\ gate.context.toolParams.path = "docs/r.md"
    /\ gate.context.activeIntentId = "INT-002"
    /\ activeIntentsByTask["t1"] = "INT-001"
    /\ Resolvable("INT-001") /\ Resolvable("INT-002")
    /\ ~ValidatePath("docs/r.md", IntentOf("INT-001").ownedScope)
    /\ gate.intent.id = "INT-002"
    /\ gate.result.outcome = "allowed"

\* ------------------------------------------------------------------ C28
\* what the audit extracts for the operation, and the paths of its targets
TraceTargetsOfOp == ExtractTraceTargets(Op.context.toolName, Op.context.toolParams)

TargetPaths(targets) == [i \in 1..Len(targets) |-> targets[i].path]

\* what PolicyGate does with the same operation in the registry state the
\* audit left
GateOnOp == PreToolHookRun(Op.context, file, intentsCache, activeIntentsByTask, TRUE)

\* the paths the gate puts to the scope check: those it extracts, once an
\* intent resolved for a file tool
GateCheckedPaths ==
    IF GateOnOp.resolved /\ Op.context.toolName \in FileTools /\ ~RequestPaths("t1").threw
    THEN RequestPaths("t1").paths
    ELSE <<>>

\* the paths of the entries the audit appended
RecordedPaths == [i \in 1..Len(traceLog) |-> traceLog[i].filePath]

\* C28 -- For every operation and every registry state the target paths the
\* AuditLogger records are the target paths PolicyGate checks: both extract
\* the same sequence (same precedence between path and file_path per kind,
\* same hunk order, move destinations included, a patch neither can parse
\* failing in both), and an audit that returned has recorded exactly the paths
\* the gate checks for the operation, under the same intent.
C28_AuditedPathsAreCheckedPaths ==
    Op.pc # "idle" =>
        /\ TraceTargetsOfOp.threw = RequestPaths("t1").threw
        /\ TargetPaths(TraceTargetsOfOp.targets) = RequestPaths("t1").paths
        /\ (AuditDone /\ Op.post = "success") =>
              /\ RecordedPaths = GateCheckedPaths
              /\ RecordedPaths # <<>> => GateOnOp.intent.id = traceLog[1].intentId

\* a patch that moves a file: source and destination are both recorded, as
\* the gate checks both
C28_Witness ==
    /\ AuditDone /\ Op.post = "success"
    /\ Op.context.toolParams.patch = PatchMoveOut
    /\ RecordedPaths = <<"src/a.ts", "docs/r.md">>
    /\ GateCheckedPaths = <<"src/a.ts", "docs/r.md">>
    /\ GateOnOp.result.outcome = "denied"

\* ------------------------------------------------------------------ C29
\* the audited operation is a patch with an add hunk for the path
AddsFile(path) ==
    /\ Op.context.toolName = "apply_patch"
    /\ \E k \in 1..Len(ParsePatch(Op.context.toolParams.patch).hunks) :
          /\ ParsePatch(Op.context.toolParams.patch).hunks[k].type = "AddFile"
          /\ ParsePatch(Op.context.toolParams.patch).hunks[k].path = path

\* the audited operation is a whole-file write to a path that named no file
WritesNewFile == Op.context.toolName = "write_to_file" /\ Op.fresh

WellFormedEntry(i) ==
    /\ traceLog[i].mutationClass \in {"CREATE", "MODIFY"}
    /\ traceLog[i].toolName # ""

\* C29 (as stated) -- Every trace entry has mutationClass CREATE or MODIFY and
\* a non-empty toolName; a target is CREATE when the operation creates a new
\* file (an add hunk of a multi-file patch, a whole-file write to a new path)
\* and MODIFY when an existing file is edited or is the destination of a move.
C29_CreateForNewFiles ==
    \A i \in 1..Len(traceLog) :
        /\ WellFormedEntry(i)
        /\ traceLog[i].mutationClass = "CREATE" <=>
              (AddsFile(traceLog[i].filePath) \/ WritesNewFile)

\* C29 (amended) -- Every trace entry has mutationClass CREATE or MODIFY and a
\* non-empty toolName, and the class follows from the kind of the operation
\* alone: it is CREATE for the add hunks of a multi-file patch and for nothing
\* else, and MODIFY for every other target, the target of a whole-file write
\* included whether or not its path named a file before.
C29_ClassByKind ==
    \A i \in 1..Len(traceLog) :
        /\ WellFormedEntry(i)
        /\ traceLog[i].mutationClass = "CREATE" <=> AddsFile(traceLog[i].filePath)

\* a patch that adds one file and moves another: CREATE, MODIFY, MODIFY
C29_Witness ==
    /\ Audit_Returned
    /\ Op.context.toolParams.patch = PatchOutThenMoveOut
    /\ Len(traceLog) = 3
    /\ traceLog[1].mutationClass = "CREATE"
    /\ traceLog[2].mutationClass = "MODIFY"
    /\ traceLog[3].mutationClass = "MODIFY"
    /\ traceLog[3].toolName = "apply_patch"

\* ------------------------------------------------------------------ C30
\* C30 -- After invalidateCache() returns, no load() result and no cache
\* content comes from a read of the definition resource made before the
\* invalidation: a load that had read the resource when invalidateCache() was
\* called does not go on to assign the cache, or to return, what it read.
C30_NoStoreOfEarlierRead == ~flight.staleStore

\* ------------------------------------------------------------------ C31
\* the gate was asked about a mutation-capable operation whose intent could
\* only be resolved by a load() that fails
JudgedWithoutDefinitions ==
    /\ Decided
    /\ gate.context.toolName \in MutationCapable
    /\ LookupFails

\* C31 -- PolicyGate is fail-closed when the definitions cannot be loaded: if
\* resolving the intent of a mutation-capable operation needs a load() that
\* fails with a parse error, the gate yields no allowed result for the
\* operation; run() rejects with the load error and resolves no intent.
C31_FailClosedOnLoadError ==
    JudgedWithoutDefinitions =>
        /\ gate.result.outcome # "allowed"
        /\ gate.result.outcome = "threw"
        /\ gate.intent = NoIntent
        /\ ~intentsCache.loaded

\* a write inside the scope of the bound intent, asked for after the
\* definitions became unparsable and the cache was invalidated
C31_Witness ==
    /\ JudgedWithoutDefinitions
    /\ file = "bad"
    /\ gate.context.toolName = "write_to_file"
    /\ gate.context.toolParams.path = "src/a.ts"
    /\ gate.context.activeIntentId = Undefined
    /\ activeIntentsByTask["t1"] = "INT-001"
    /\ gate.result.outcome = "threw"

\* ------------------------------------------------------------------ C32
\* the last activate or deactivate was an activate of the task of the request
\* that succeeded; BoundId is the id it bound
BoundByLastCall ==
    /\ regCall.op = "setActiveIntent"
    /\ ~regCall.threw
    /\ regCall.taskId = gate.context.taskId

BoundId == regCall.intentId

\* the gate gave its result for a mutation-capable request of a task bound
\* that way, with no explicit id that resolves
JudgedByBinding ==
    /\ GateJudged
    /\ BoundByLastCall
    /\ ~Resolvable(gate.context.activeIntentId)

NoActiveIntentDenial ==
    /\ gate.result.outcome = "denied"
    /\ gate.result.msg = "NoActiveIntent"
    /\ gate.intent = NoIntent

ScopeWhenBound ==
    NormalizeIntent(RawIntents(ParsedYaml(regCall.fileAfter)).items[1]).ownedScope

====
